---------------------------- MODULE Spec2Model ----------------------------
(***************************************************************************)
(* Scaling engine of the kubex operator: the schedule evaluator, the scale *)
(* executor (Engine.ScaleTarget), the readiness oracle, the phase computer *)
(* and the two reconcilers (ScalingConfig, ScalingGroup) that drive them.  *)
(*                                                                         *)
(* Go strings are modelled as sequences of one-character strings, so that  *)
(* prefix, suffix, substring, trimming, splitting and scanning are the     *)
(* operations the code performs on them.                                   *)
(***************************************************************************)
EXTENDS Integers, Sequences, FiniteSets, TLC

VARIABLES
    isa,        \* schedule evaluator harness: one call of Engine.IsActive
    workloads,  \* Deployments and StatefulSets of the cluster, by object id
    configs,    \* ScalingConfig objects of the operator namespace, by name
    groups,     \* ScalingGroup objects of the operator namespace, by name
    now,        \* wall clock, seconds since Sunday 00:00:00 UTC
    last,       \* what the most recent reconcile did (writes, events, result)
    cycle,      \* per driver: progress of a scale-down / scale-up round trip
    userActions, \* number of API requests users have made
    inflight    \* the configs whose reconcile in flight is past "Group Wins"

vars == <<isa, workloads, configs, groups, now, last, cycle, userActions, inflight>>

clusterVars == <<workloads, configs, groups, now, last, cycle, userActions, inflight>>

-----------------------------------------------------------------------------
(* Bounds of the model *)

MaxSchedules == 2   \* longest schedule list given to IsActive in the harness
MaxReplicas == 2    \* largest initial desired replica count of a workload
MaxTicks == 2       \* number of one-minute clock steps
MaxUserActions == 2 \* number of API requests (manual override, group create, delete)
MaxPatterns == 2    \* longest sequence or exclusion list given to the name matchers

-----------------------------------------------------------------------------
(* Go string helpers *)

Space == {" ", "\t", "\n", "\r"}

Digits == <<"0", "1", "2", "3", "4", "5", "6", "7", "8", "9">>

IsDigit(c) == \E d \in 1..10 : Digits[d] = c

DigitVal(c) == (CHOOSE d \in 1..10 : Digits[d] = c) - 1

HasPrefix(s, p) == Len(p) <= Len(s) /\ SubSeq(s, 1, Len(p)) = p

HasSuffix(s, p) == Len(p) <= Len(s) /\ SubSeq(s, Len(s) - Len(p) + 1, Len(s)) = p

TrimPrefix(s, p) == IF HasPrefix(s, p) THEN SubSeq(s, Len(p) + 1, Len(s)) ELSE s

TrimSuffix(s, p) == IF HasSuffix(s, p) THEN SubSeq(s, 1, Len(s) - Len(p)) ELSE s

\* a slip: the arguments the other way round
ContainsSwapped(s, sub) ==
    \E i \in 0..(Len(sub) - Len(s)) : SubSeq(sub, i + 1, i + Len(s)) = s

Contains(s, sub) ==
    \E i \in 0..(Len(s) - Len(sub)) : SubSeq(s, i + 1, i + Len(sub)) = sub

TrimSpace(s) ==
    LET inner == {i \in 1..Len(s) : s[i] \notin Space}
    IN  IF inner = {} THEN <<>>
        ELSE SubSeq(s, CHOOSE i \in inner : \A j \in inner : i <= j,
                       CHOOSE i \in inner : \A j \in inner : j <= i)

RECURSIVE FieldsFrom(_, _, _)
\* strings.Fields: the maximal runs of non-space characters of s, in order.
FieldsFrom(s, i, cur) ==
    IF i > Len(s) THEN (IF cur = <<>> THEN <<>> ELSE <<cur>>)
    ELSE IF s[i] \in Space
         THEN (IF cur = <<>> THEN <<>> ELSE <<cur>>) \o FieldsFrom(s, i + 1, <<>>)
         ELSE FieldsFrom(s, i + 1, Append(cur, s[i]))

Fields(s) == FieldsFrom(s, 1, <<>>)

Star == <<"*">>

-----------------------------------------------------------------------------
(* Schedule evaluator *)

\* a *bool: the empty sequence is nil, <<v>> points to v
None == <<>>

Some(v) == <<v>>

RECURSIVE ScanDigits(_, _, _)
\* the decimal digits of s from position i on: [val, next, any]
ScanDigits(s, i, acc) ==
    IF i <= Len(s) /\ IsDigit(s[i])
    THEN ScanDigits(s, i + 1, [val |-> acc.val * 10 + DigitVal(s[i]), any |-> TRUE])
    ELSE [val |-> acc.val, any |-> acc.any, next |-> i]

RECURSIVE SkipSpace(_, _)
SkipSpace(s, i) == IF i <= Len(s) /\ s[i] \in Space THEN SkipSpace(s, i + 1) ELSE i

\* one %d verb of fmt.Sscanf at position i: leading space, an optional sign, digits
ScanInt(s, i) ==
    LET j == SkipSpace(s, i)
        neg == j <= Len(s) /\ s[j] = "-"
        k == IF j <= Len(s) /\ s[j] \in {"-", "+"} THEN j + 1 ELSE j
        d == ScanDigits(s, k, [val |-> 0, any |-> FALSE])
    IN  [ok |-> d.any, val |-> IF neg THEN 0 - d.val ELSE d.val, next |-> d.next]

\* fmt.Sscanf(hhmm, "%d:%d", &h, &m); return h*60 + m.  The error is dropped:
\* whatever was scanned before the failure stays assigned, the rest stays 0.
parseMinutes(hhmm) ==
    LET h == ScanInt(hhmm, 1)
        colon == h.ok /\ h.next <= Len(hhmm) /\ hhmm[h.next] = ":"
        m == IF colon THEN ScanInt(hhmm, h.next + 1) ELSE [ok |-> FALSE, val |-> 0, next |-> 0]
    IN  (IF h.ok THEN h.val ELSE 0) * 60 + (IF m.ok THEN m.val ELSE 0)

\* time.LoadLocation on the zone names the model uses: offset from UTC in
\* minutes, or an error for a name the zone database does not hold.
LoadLocation(tz) ==
    CASE tz = "UTC" -> [err |-> FALSE, offset |-> 0]
      [] tz = "Asia/Tokyo" -> [err |-> FALSE, offset |-> 540]
      [] OTHER -> [err |-> TRUE, offset |-> 0]

\* now.Weekday() and now.Hour()*60 + now.Minute() of instant t at a UTC offset
Weekday(t, offset) == ((t + offset * 60) \div 86400) % 7

MinuteOfDay(t, offset) == ((t + offset * 60) \div 60) % 1440

\* the offset the schedule's "now" is taken in: its zone, the operator's local
\* zone when the zone is empty or does not load
ZoneOffset(s, localOffset) ==
    IF s.timezone # "" /\ ~LoadLocation(s.timezone).err
    THEN LoadLocation(s.timezone).offset
    ELSE localOffset

InDays(days, weekday) == \E i \in 1..Len(days) : days[i] = weekday

\* a slip: the end minute is left out of the window
InWindowExclusiveEnd(s, nowMinutes) ==
    nowMinutes >= parseMinutes(s.startTime) /\ nowMinutes < parseMinutes(s.endTime)

\* the window test of one schedule whose day matched
InWindow(s, nowMinutes) ==
    nowMinutes >= parseMinutes(s.startTime) /\ nowMinutes <= parseMinutes(s.endTime)

RECURSIVE ScheduleLoop(_, _, _, _, _)
\* the loop over schedules: TRUE on the first match, else FALSE when a schedule
\* with days was seen, else the default TRUE
ScheduleLoop(schedules, i, hasValidSchedule, t, localOffset) ==
    IF i > Len(schedules) THEN ~hasValidSchedule
    ELSE LET s == schedules[i]
             off == ZoneOffset(s, localOffset)
         IN  IF Len(s.days) = 0
             THEN ScheduleLoop(schedules, i + 1, hasValidSchedule, t, localOffset)
             ELSE IF InDays(s.days, Weekday(t, off)) /\ InWindow(s, MinuteOfDay(t, off))
                  THEN TRUE
                  ELSE ScheduleLoop(schedules, i + 1, TRUE, t, localOffset)

\* a slip: the override is consulted only when there are no schedules
IsActiveScheduleFirst(schedules, manualActive, t, localOffset) ==
    IF Len(schedules) > 0 THEN ScheduleLoop(schedules, 1, FALSE, t, localOffset)
    ELSE IF manualActive # None THEN manualActive[1] ELSE TRUE

IsActive(schedules, manualActive, t, localOffset) ==
    IF manualActive # None THEN manualActive[1]
    ELSE ScheduleLoop(schedules, 1, FALSE, t, localOffset)


-----------------------------------------------------------------------------
(* Harness of the schedule evaluator: inputs drawn at Init, one call *)

AllDays == <<0, 1, 2, 3, 4, 5, 6>>

T0900 == <<"0", "9", ":", "0", "0">>
T1700 == <<"1", "7", ":", "0", "0">>
T930 == <<"9", ":", "3", "0">>
T0000 == <<"0", "0", ":", "0", "0">>
T2359 == <<"2", "3", ":", "5", "9">>

Schedule(days, start, end, tz) ==
    [days |-> days, startTime |-> start, endTime |-> end, timezone |-> tz]

SampleSchedules ==
    { Schedule(AllDays, T0900, T1700, "UTC"),
      Schedule(<<1>>, T0900, T1700, ""),
      Schedule(<<>>, T0000, T2359, ""),
      Schedule(AllDays, T1700, T0900, ""),
      Schedule(AllDays, T0900, T1700, "Asia/Tokyo"),
      Schedule(<<0, 1>>, T930, T930, "Mars/Base") }

\* seconds since Sunday 00:00:00 UTC of a weekday, hour and minute
At(day, h, m) == day * 86400 + h * 3600 + m * 60

SampleInstants ==
    { At(1, 10, 0), At(1, 9, 0), At(1, 17, 0), At(1, 17, 1), At(1, 8, 59),
      At(0, 20, 0), At(1, 9, 30), At(1, 0, 30), At(2, 23, 30) }

RECURSIVE SeqsUpTo(_, _)
SeqsUpTo(S, n) ==
    IF n = 0 THEN {<<>>}
    ELSE LET shorter == SeqsUpTo(S, n - 1)
         IN  shorter \cup {Append(q, x) : q \in shorter, x \in S}

IsaIdle ==
    [pc |-> "idle", schedules |-> <<>>, manualActive |-> None, t |-> 0,
     localOffset |-> 0, result |-> TRUE]

NoReconcile == [kind |-> "none"]

EmptyMap == [k \in {} |-> 0]

ClusterIdle ==
    /\ workloads = EmptyMap
    /\ configs = EmptyMap
    /\ groups = EmptyMap
    /\ now = 0
    /\ last = NoReconcile
    /\ cycle = EmptyMap
    /\ userActions = 0
    /\ inflight = {}

InitIsActive ==
    /\ isa \in [pc : {"call"},
                schedules : SeqsUpTo(SampleSchedules, MaxSchedules),
                manualActive : {None, Some(TRUE), Some(FALSE)},
                t : SampleInstants,
                localOffset : {0, 60},
                result : {TRUE}]
    /\ ClusterIdle

CallIsActive ==
    /\ isa.pc = "call"
    /\ isa' = [isa EXCEPT !.pc = "done",
                          !.result = IsActive(isa.schedules, isa.manualActive,
                                              isa.t, isa.localOffset)]
    /\ UNCHANGED clusterVars

NextIsActive == CallIsActive

SpecIsActive == InitIsActive /\ [][NextIsActive]_vars

\* time strings fmt.Sscanf("%d:%d") stops in: no digit at all, no colon after
\* the hour, no digit after the colon, nothing
TAbc == <<"a", "b", "c">>
T9am == <<"9", "a", "m">>
T17x == <<"1", "7", ":", "x", "x">>
TEmpty == <<>>

BrokenTimes == {TAbc, T9am, T17x, TEmpty}

\* one schedule for every day, its start or its end (or both) a broken string
InitBrokenTimes ==
    /\ \E start \in BrokenTimes \cup {T0000, T0900}, end \in BrokenTimes \cup {T1700, T2359} :
          /\ start \in BrokenTimes \/ end \in BrokenTimes
          /\ isa \in [pc : {"call"},
                      schedules : {<<Schedule(AllDays, start, end, "UTC")>>},
                      manualActive : {None},
                      t : SampleInstants,
                      localOffset : {0, 60},
                      result : {TRUE}]
    /\ ClusterIdle

SpecBrokenTimes == InitBrokenTimes /\ [][NextIsActive]_vars

-----------------------------------------------------------------------------
(* Claims about the schedule evaluator *)

IsaValid(s) == Len(s.days) > 0

IsaStart(s) == parseMinutes(s.startTime)

IsaEnd(s) == parseMinutes(s.endTime)

\* the schedule's weekday is in its days and start <= nowMinutes <= end
IsaMatches(s) ==
    LET off == ZoneOffset(s, isa.localOffset)
    IN  /\ IsaValid(s)
        /\ Weekday(isa.t, off) \in {s.days[i] : i \in 1..Len(s.days)}
        /\ IsaStart(s) <= MinuteOfDay(isa.t, off)
        /\ MinuteOfDay(isa.t, off) <= IsaEnd(s)

IsaScheduleSet == {isa.schedules[i] : i \in 1..Len(isa.schedules)}

\* C1: a present manual override (true or false) is the result of IsActive,
\* whatever the schedules and the current time are.
C1_ManualOverrideWins ==
    (isa.pc = "done" /\ isa.manualActive # None) => isa.result = isa.manualActive[1]

\* an override of false returned although a schedule matches the current time
C1_Witness ==
    /\ isa.pc = "done"
    /\ isa.manualActive = Some(FALSE)
    /\ isa.result = FALSE
    /\ \E s \in IsaScheduleSet : IsaMatches(s)

\* C2: without an override IsActive is true iff no schedule has days
\* (default-active) or some schedule with days matches: weekday in days and
\* start <= nowMinutes <= end, both inclusive; a schedule with start > end
\* never accounts for a true result.
C2_ScheduleDecides ==
    (isa.pc = "done" /\ isa.manualActive = None) =>
        /\ isa.result = ( \/ \A s \in IsaScheduleSet : ~IsaValid(s)
                          \/ \E s \in IsaScheduleSet : IsaMatches(s) )
        /\ (isa.result /\ \E s \in IsaScheduleSet : IsaValid(s)) =>
               \E s \in IsaScheduleSet : IsaMatches(s) /\ IsaStart(s) <= IsaEnd(s)

\* the current minute is exactly the end minute of the only matching schedule,
\* beside a schedule with start > end whose wrapped window holds the minute
C2_Witness ==
    /\ isa.pc = "done"
    /\ isa.manualActive = None
    /\ isa.result = TRUE
    /\ \E s \in IsaScheduleSet :
          /\ IsaMatches(s)
          /\ MinuteOfDay(isa.t, ZoneOffset(s, isa.localOffset)) = IsaEnd(s)
          /\ \A o \in IsaScheduleSet \ {s} : ~IsaMatches(o)
    /\ \E s \in IsaScheduleSet : IsaValid(s) /\ IsaStart(s) > IsaEnd(s)

-----------------------------------------------------------------------------
(* Workloads: the cluster's Deployments and StatefulSets.  workloads is a   *)
(* sequence; a workload's index is its identity and its place in a List.    *)
(* Each holds ns, kind, name, spec (spec.replicas), replicas                *)
(* (status.replicas) and ready (status.readyReplicas); initial is history:  *)
(* the desired count the workload was created with.                         *)

Deployment == "*v1.Deployment"      \* what %T prints for the object
StatefulSet == "*v1.StatefulSet"

Workload(ns, kind, name, n) ==
    [ns |-> ns, kind |-> kind, name |-> name, spec |-> n, replicas |-> n, ready |-> n,
     initial |-> n]

\* the ascending sequence of the members of a finite set of integers
RECURSIVE SortInts(_)
SortInts(S) ==
    IF S = {} THEN <<>>
    ELSE LET m == CHOOSE x \in S : \A y \in S : x <= y
         IN  <<m>> \o SortInts(S \ {m})

Reverse(q) == [i \in 1..Len(q) |-> q[Len(q) + 1 - i]]

\* Client.List of one kind in a namespace: the indices, in List order
ListKind(wl, ns, kind) ==
    SortInts({i \in 1..Len(wl) : wl[i].ns = ns /\ wl[i].kind = kind})

MapPut(m, k, v) == [x \in DOMAIN m \cup {k} |-> IF x = k THEN v ELSE m[x]]

MapDel(m, K) == [x \in DOMAIN m \ K |-> m[x]]

-----------------------------------------------------------------------------
(* Workload resolver *)

RECURSIVE ExcludedFrom(_, _, _)
ExcludedFrom(name, exclusions, i) ==
    IF i > Len(exclusions) THEN FALSE
    ELSE LET ex == TrimSpace(exclusions[i])
         IN  IF ex = <<>> THEN ExcludedFrom(name, exclusions, i + 1)
             ELSE IF ex = Star THEN TRUE
             ELSE IF HasSuffix(ex, Star) /\ HasPrefix(name, TrimSuffix(ex, Star)) THEN TRUE
             ELSE IF ex = name THEN TRUE
             ELSE ExcludedFrom(name, exclusions, i + 1)

\* a slip: a pattern without "*" is taken as a prefix too
isExcludedByPrefix(name, exclusions) ==
    \E i \in 1..Len(exclusions) :
        /\ TrimSpace(exclusions[i]) # <<>>
        /\ HasPrefix(TrimSpace(name), TrimSuffix(TrimSpace(exclusions[i]), Star))

\* a slip: the pattern "*" is passed over
isExcludedNoCatchAll(name, exclusions) ==
    ExcludedFrom(TrimSpace(name),
                 SelectSeq(exclusions, LAMBDA ex : TrimSpace(ex) # Star), 1)

isExcluded(name, exclusions) == ExcludedFrom(TrimSpace(name), exclusions, 1)

NoPriority == 999

\* a slip: an element without "*" is matched by equality
RECURSIVE SequenceIndexFromEqual(_, _, _)
SequenceIndexFromEqual(name, sequence, i) ==
    IF i > Len(sequence) THEN NoPriority
    ELSE LET s == sequence[i]
         IN  IF s = Star THEN i - 1
             ELSE IF HasSuffix(s, Star) /\ HasPrefix(name, TrimSuffix(s, Star)) THEN i - 1
             ELSE IF s = name THEN i - 1
             ELSE SequenceIndexFromEqual(name, sequence, i + 1)

RECURSIVE SequenceIndexFrom(_, _, _)
SequenceIndexFrom(name, sequence, i) ==
    IF i > Len(sequence) THEN NoPriority
    ELSE LET s == sequence[i]
         IN  IF s = Star THEN i - 1
             ELSE IF HasSuffix(s, Star) /\ HasPrefix(name, TrimSuffix(s, Star)) THEN i - 1
             ELSE IF Contains(s, name) THEN i - 1
             ELSE SequenceIndexFrom(name, sequence, i + 1)

getSequenceIndex(name, sequence) == SequenceIndexFrom(name, sequence, 1)

\* a slip: the exclusion filter applied to the Deployments only
ScalableResourcesDeploymentsOnly(wl, ns, exclusions) ==
    SelectSeq(ListKind(wl, ns, Deployment), LAMBDA i : ~isExcluded(wl[i].name, exclusions))
    \o ListKind(wl, ns, StatefulSet)

\* the namespace's Deployments, then its StatefulSets, without the excluded
ScalableResources(wl, ns, exclusions) ==
    SelectSeq(ListKind(wl, ns, Deployment), LAMBDA i : ~isExcluded(wl[i].name, exclusions))
    \o SelectSeq(ListKind(wl, ns, StatefulSet), LAMBDA i : ~isExcluded(wl[i].name, exclusions))

\* priorityGroups[p]: the scalable resources of sequence index p, in order
PriorityGroup(wl, scalable, sequence, p) ==
    SelectSeq(scalable, LAMBDA i : getSequenceIndex(wl[i].name, sequence) = p)

\* a slip: the priorities are not reversed when scaling up
PrioritiesAscending(wl, scalable, sequence, active) ==
    SortInts({getSequenceIndex(wl[scalable[j]].name, sequence) : j \in 1..Len(scalable)})

\* the sorted priorities, reversed when scaling up
Priorities(wl, scalable, sequence, active) ==
    LET sorted == SortInts({getSequenceIndex(wl[scalable[j]].name, sequence) :
                                j \in 1..Len(scalable)})
    IN  IF active THEN Reverse(sorted) ELSE sorted

-----------------------------------------------------------------------------
(* Readiness oracle and phase computer *)

\* a slip: a desired count still at zero passes for ready when scaling up
ObjectReadyIgnoringZero(w, targetActive) ==
    IF targetActive THEN ~(w.ready < w.spec)
    ELSE ~(w.ready > 0 \/ w.replicas > 0)

\* a slip: pods that are not ready are not counted when scaling down
ObjectReadyByReadyPods(w, targetActive) ==
    IF targetActive THEN ~(w.spec = 0) /\ ~(w.ready < w.spec)
    ELSE ~(w.ready > 0)

ObjectReady(w, targetActive) ==
    IF targetActive THEN ~(w.spec = 0) /\ ~(w.ready < w.spec)
    ELSE ~(w.ready > 0 \/ w.replicas > 0)

isGroupReady(wl, objs, targetActive) ==
    \A j \in 1..Len(objs) : ObjectReady(wl[objs[j]], targetActive)

\* a slip: the rule for a namespace fully up is left out
ComputePhaseNoScaledUpRule(wl, ns, targetActive) ==
    LET items == {i \in 1..Len(wl) : wl[i].ns = ns}
        totalResources == Cardinality(items)
        zeroCount == Cardinality({i \in items : wl[i].spec = 0})
        runningCount == Cardinality({i \in items : wl[i].spec # 0})
        readyCount == Cardinality({i \in items : wl[i].spec # 0 /\ wl[i].ready >= wl[i].spec})
    IN  IF totalResources = 0 THEN (IF targetActive THEN "ScaledUp" ELSE "ScaledDown")
        ELSE IF zeroCount = totalResources THEN "ScaledDown"
        ELSE IF targetActive
             THEN (IF zeroCount > 0 \/ readyCount < runningCount THEN "ScalingUp" ELSE "ScaledUp")
        ELSE IF runningCount > 0 /\ zeroCount > 0 THEN "ScalingDown"
        ELSE IF runningCount > 0 /\ zeroCount = 0 THEN "PartlyScaled"
        ELSE "ScaledDown"

ComputePhase(wl, ns, targetActive) ==
    LET items == {i \in 1..Len(wl) : wl[i].ns = ns}
        totalResources == Cardinality(items)
        zeroCount == Cardinality({i \in items : wl[i].spec = 0})
        runningCount == Cardinality({i \in items : wl[i].spec # 0})
        readyCount == Cardinality({i \in items : wl[i].spec # 0 /\ wl[i].ready >= wl[i].spec})
    IN  IF totalResources = 0 THEN (IF targetActive THEN "ScaledUp" ELSE "ScaledDown")
        ELSE IF zeroCount = totalResources THEN "ScaledDown"
        ELSE IF runningCount = totalResources /\ readyCount = totalResources THEN "ScaledUp"
        ELSE IF targetActive
             THEN (IF zeroCount > 0 \/ readyCount < runningCount THEN "ScalingUp" ELSE "ScaledUp")
        ELSE IF runningCount > 0 /\ zeroCount > 0 THEN "ScalingDown"
        ELSE IF runningCount > 0 /\ zeroCount = 0 THEN "PartlyScaled"
        ELSE "ScaledDown"

-----------------------------------------------------------------------------
(* Scale executor *)

\* fmt.Sprintf("%T/%s", obj, obj.GetName())
Key(w) == <<w.kind, "/">> \o w.name

\* a slip: the recorded count is not consulted
TargetReplicasIgnoringRecord(originalReplicas, w, active) ==
    IF ~active THEN 0
    ELSE IF w.spec > 0 THEN w.spec
    ELSE 1

\* a slip: a workload at zero without a record is left at zero
TargetReplicasNoDefault(originalReplicas, w, active) ==
    IF ~active THEN 0
    ELSE IF Key(w) \in DOMAIN originalReplicas THEN originalReplicas[Key(w)]
    ELSE w.spec

\* the replica count aimed for
TargetReplicas(originalReplicas, w, active) ==
    IF ~active THEN 0
    ELSE IF Key(w) \in DOMAIN originalReplicas THEN originalReplicas[Key(w)]
    ELSE IF w.spec > 0 THEN w.spec
    ELSE 1

\* "Record original IF scaling down for the first time"
RecordOriginal(originalReplicas, key, active, current, target) ==
    IF ~active /\ current > 0 THEN MapPut(originalReplicas, key, current)
    ELSE originalReplicas

\* a slip: the write is issued without comparing the counts
ScaleObjectAlways(st, i, active) ==
    LET w == st.wl[i]
        key == Key(w)
        target == TargetReplicas(st.orig, w, active)
        current == w.spec
        orig2 == RecordOriginal(st.orig, key, active, current, target)
    IN  [st EXCEPT !.orig = orig2,
                   !.wl[i].spec = target,
                   !.writes = Append(@, [obj |-> i, ns |-> w.ns, from |-> current,
                                         to |-> target,
                                         held |-> IF key \in DOMAIN orig2
                                                  THEN orig2[key] ELSE -1])]

\* the body of the loop over the objects of a priority group, for object i.
\* st holds wl (the workloads), orig (originalReplicas) and writes (the
\* replica writes issued so far, each with the count recorded under the
\* object's key when it was issued, -1 when none)
ScaleObject(st, i, active) ==
    LET w == st.wl[i]
        key == Key(w)
        target == TargetReplicas(st.orig, w, active)
        current == w.spec
        orig2 == RecordOriginal(st.orig, key, active, current, target)
    IN  IF current # target
        THEN [st EXCEPT !.orig = orig2,
                        !.wl[i].spec = target,
                        !.writes = Append(@, [obj |-> i, ns |-> w.ns, from |-> current,
                                              to |-> target,
                                              held |-> IF key \in DOMAIN orig2
                                                       THEN orig2[key] ELSE -1])]
        ELSE st

RECURSIVE ScaleObjects(_, _, _, _)
ScaleObjects(st, objs, j, active) ==
    IF j > Len(objs) THEN st
    ELSE ScaleObjects(ScaleObject(st, objs[j], active), objs, j + 1, active)

\* a slip: the restored entries are erased without the readiness check
EraseRestoredUnchecked(st, objs, active) ==
    IF active
    THEN [st EXCEPT !.orig = MapDel(@, {Key(st.wl[objs[j]]) : j \in 1..Len(objs)})]
    ELSE st

\* "If scaling UP, we can now safely remove from originals IF they are ready"
EraseRestored(st, objs, active) ==
    IF active /\ isGroupReady(st.wl, objs, active)
    THEN [st EXCEPT !.orig = MapDel(@, {Key(st.wl[objs[j]]) : j \in 1..Len(objs)})]
    ELSE st

RECURSIVE ScaleLoop(_, _, _, _, _, _, _)

\* a slip: the timeout does not lift the barrier
AfterWritesNoBypass(st2, objs, scalable, sequence, prios, k, active, timeoutPassed) ==
    LET readyAfter == isGroupReady(st2.wl, objs, active)
        st3 == [st2 EXCEPT !.visits = Append(@, [p |-> prios[k], objs |-> objs,
                                                 readyBefore |-> FALSE,
                                                 readyAfter |-> readyAfter])]
    IN  IF ~readyAfter
        THEN [st3 EXCEPT !.ready = FALSE]
        ELSE ScaleLoop(EraseRestored(st3, objs, active), scalable, sequence,
                       prios, k + 1, active, timeoutPassed)

\* the k-th priority group after its objects were written (st2): the
\* readiness check, the timeout bypass, the erasure of restored entries
AfterWrites(st2, objs, scalable, sequence, prios, k, active, timeoutPassed) ==
    LET readyAfter == isGroupReady(st2.wl, objs, active)
        st3 == [st2 EXCEPT !.visits = Append(@, [p |-> prios[k], objs |-> objs,
                                                 readyBefore |-> FALSE,
                                                 readyAfter |-> readyAfter])]
    IN  IF ~readyAfter /\ ~timeoutPassed
        THEN [st3 EXCEPT !.ready = FALSE]
        ELSE ScaleLoop(EraseRestored(st3, objs, active), scalable, sequence,
                       prios, k + 1, active, timeoutPassed)

\* the body of the loop for the k-th priority group, objs: a group that is
\* ready on arrival is passed over
VisitGroup(st, objs, scalable, sequence, prios, k, active, timeoutPassed) ==
    IF isGroupReady(st.wl, objs, active)
    THEN ScaleLoop([st EXCEPT !.visits = Append(@, [p |-> prios[k], objs |-> objs,
                                            readyBefore |-> TRUE, readyAfter |-> TRUE])],
                   scalable, sequence, prios, k + 1, active, timeoutPassed)
    ELSE AfterWrites(ScaleObjects(st, objs, 1, active), objs, scalable, sequence,
                     prios, k, active, timeoutPassed)

\* the loop over the priorities, from the k-th on.  st.visits logs, per
\* priority group visited: its priority, whether it was ready on arrival,
\* whether it was ready after being acted on.
ScaleLoop(st, scalable, sequence, prios, k, active, timeoutPassed) ==
    IF k > Len(prios) THEN [st EXCEPT !.ready = TRUE]
    ELSE VisitGroup(st, PriorityGroup(st.wl, scalable, sequence, prios[k]),
                    scalable, sequence, prios, k, active, timeoutPassed)

\* Engine.ScaleTarget: the workloads after its writes, the returned map, the
\* returned ready flag, and the log of its writes and visits
ScaleTarget(wl, ns, active, sequence, exclusions, originalReplicas, timeoutPassed) ==
    LET scalable == ScalableResources(wl, ns, exclusions)
        prios == Priorities(wl, scalable, sequence, active)
    IN  ScaleLoop([wl |-> wl, orig |-> originalReplicas, writes |-> <<>>,
                   visits |-> <<>>, ready |-> TRUE],
                  scalable, sequence, prios, 1, active, timeoutPassed)

-----------------------------------------------------------------------------
(* Time *)

Minute == 60                \* time.Minute, in seconds

ZeroTime == -1              \* the zero metav1.Time (LastAction.IsZero())

RequeueConverging == 5      \* 5 * time.Second
RequeueSteady == 60         \* time.Minute
RequeueOverridden == 300    \* 5 * time.Minute

\* a slip: the short requeue is never used
RequeueAfterAlwaysSteady(ready) == RequeueSteady

\* "Faster requeue if scaling is in progress"
RequeueAfter(ready) == IF ~ready THEN RequeueConverging ELSE RequeueSteady

\* time.Since(t) in seconds; since the zero time it exceeds every timeout
Since(t) == IF t = ZeroTime THEN now + Minute + 1 ELSE now - t

\* the timeout window of both reconcilers
TimeoutPassed(phase, lastAction) ==
    phase \in {"ScalingUp", "ScalingDown"} /\ Since(lastAction) > Minute

ZeroStatus ==
    [phase |-> "", lastAction |-> ZeroTime, originalReplicas |-> EmptyMap,
     managedCount |-> 0, namespacesReady |-> 0, namespacesTotal |-> 0]

ZeroConfigStatus ==
    [phase |-> "", lastAction |-> ZeroTime, originalReplicas |-> EmptyMap]

SeqToSet(q) == {q[i] : i \in 1..Len(q)}

-----------------------------------------------------------------------------
(* Round-trip bookkeeping (history, not program state).  A driver is a      *)
(* config or a group; cycle[d] is "none", "goingdown" (a scale-down begun   *)
(* with the workloads at their initial counts), "down" (that scale-down     *)
(* reported complete) or "up" (a scale-up reported complete after it).      *)

ConfigDriver(c) == <<"config", c>>

GroupDriver(g) == <<"group", g>>

DriverNamespaces(d) ==
    IF d[1] = "config" THEN {configs[d[2]].spec.targetNamespace}
    ELSE SeqToSet(groups[d[2]].spec.namespaces)
         \cup UNION {SeqToSet(Fields(groups[d[2]].spec.sequence[i])) :
                        i \in 1..Len(groups[d[2]].spec.sequence)}

\* the workloads of the namespaces are at their initial desired counts
AtInitialCounts(nss) ==
    \A i \in 1..Len(workloads) :
        workloads[i].ns \in nss => workloads[i].spec = workloads[i].initial

CycleAfter(cur, targetActive, ready, fresh) ==
    IF ~targetActive
    THEN (IF cur \in {"goingdown", "down"} \/ fresh
          THEN (IF ready THEN "down" ELSE "goingdown")
          ELSE "none")
    ELSE IF cur \in {"down", "up"} THEN (IF ready THEN "up" ELSE "down")
    ELSE "none"

\* ScaleTarget found every priority group ready, none passed over on timeout
Converged(r) == r.ready /\ \A j \in 1..Len(r.visits) : r.visits[j].readyAfter

\* the bookkeeping after driver d ran ScaleTarget with the given outcome
Bookkeep(d, targetActive, ready, writes) ==
    LET touched == {writes[j].ns : j \in 1..Len(writes)}
    IN  [x \in DOMAIN cycle |->
            IF x = d THEN CycleAfter(cycle[d], targetActive, ready,
                                     AtInitialCounts(DriverNamespaces(d)))
            ELSE IF DriverNamespaces(x) \cap touched # {} THEN "none"
            ELSE cycle[x]]

-----------------------------------------------------------------------------
(* ScalingConfig reconciler *)

ExistingGroups == {g \in DOMAIN groups : groups[g].exists}

ExistingConfigs == {c \in DOMAIN configs : configs[c].exists}

\* "Group Wins": some group's spec.namespaces holds the namespace
ManagedByGroup(ns) ==
    \E g \in ExistingGroups :
        \E i \in 1..Len(groups[g].spec.namespaces) : groups[g].spec.namespaces[i] = ns

\* a slip: a config once overridden keeps that phase
PhaseUpdateKeepOverridden(status, computedPhase) ==
    IF status.phase = "OverriddenByGroup" THEN status
    ELSE IF status.phase # computedPhase
    THEN [status EXCEPT !.phase = computedPhase, !.lastAction = now]
    ELSE status

\* a slip: a change of phase leaves lastAction as it was
PhaseUpdateStaleAction(status, computedPhase) ==
    IF status.phase # computedPhase
    THEN [status EXCEPT !.phase = computedPhase]
    ELSE IF status.lastAction = ZeroTime
    THEN [status EXCEPT !.lastAction = now]
    ELSE status

\* the phase and lastAction after the "Phase and Timeout Logic" step
PhaseUpdate(status, computedPhase) ==
    IF status.phase # computedPhase
    THEN [status EXCEPT !.phase = computedPhase, !.lastAction = now]
    ELSE IF status.lastAction = ZeroTime
    THEN [status EXCEPT !.lastAction = now]
    ELSE status

\* the reconcile past the "Group Wins" check: the phase and timeout logic,
\* the scale executor, the status update, the requeue
\* "4. Update Status" and the requeue, r being what ScaleTarget returned
ScalingResult(c, targetActive, status1, timeoutPassed, r) ==
    [workloads |-> r.wl,
     status |-> [status1 EXCEPT !.originalReplicas = r.orig],
     last |-> [kind |-> "config", name |-> c, found |-> TRUE, err |-> FALSE,
               scaleCalled |-> TRUE,
               targetActive |-> targetActive,
               timeoutPassed |-> timeoutPassed,
               writes |-> r.writes, visits |-> r.visits, ready |-> r.ready,
               requeueAfter |-> RequeueAfter(r.ready)],
     cycle |-> Bookkeep(ConfigDriver(c), targetActive, Converged(r), r.writes)]

ScalingOutcome(c) ==
    LET cfg == configs[c]
        ns == cfg.spec.targetNamespace
        targetActive == IsActive(cfg.spec.schedules, cfg.spec.active, now, 0)
        computedPhase == ComputePhase(workloads, ns, targetActive)
        status1 == PhaseUpdate(cfg.status, computedPhase)
        timeoutPassed == TimeoutPassed(status1.phase, status1.lastAction)
    IN  ScalingResult(c, targetActive, status1, timeoutPassed,
                      ScaleTarget(workloads, ns, targetActive, cfg.spec.sequence,
                                  cfg.spec.exclusions, cfg.status.originalReplicas,
                                  timeoutPassed))

\* a slip: the phase is marked but the reconcile does not return
OverriddenOutcomeStillScaling(c) ==
    [ScalingOutcome(c) EXCEPT !.status.phase = "OverriddenByGroup",
                              !.status.lastAction = now]

\* the reconcile of a config whose namespace a group manages
OverriddenOutcome(c) ==
    [workloads |-> workloads,
     status |-> [configs[c].status EXCEPT !.phase = "OverriddenByGroup",
                                          !.lastAction = now],
     last |-> [kind |-> "config", name |-> c, found |-> TRUE, err |-> FALSE,
               scaleCalled |-> FALSE,
               targetActive |-> FALSE, timeoutPassed |-> FALSE,
               writes |-> <<>>, visits |-> <<>>, ready |-> FALSE,
               requeueAfter |-> RequeueOverridden],
     cycle |-> [cycle EXCEPT ![ConfigDriver(c)] = "none"]]

\* what one reconcile of config c leaves: the workloads, the config's
\* status, the log of the reconcile and the bookkeeping
ConfigReconcileOutcome(c) ==
    IF ManagedByGroup(configs[c].spec.targetNamespace)
    THEN OverriddenOutcome(c)
    ELSE ScalingOutcome(c)

ConfigReconcile(c) ==
    /\ c \in DOMAIN configs
    /\ IF ~configs[c].exists
       THEN /\ last' = [kind |-> "config", name |-> c, found |-> FALSE, err |-> FALSE,
                        writes |-> <<>>, requeueAfter |-> 0]
            /\ UNCHANGED <<workloads, configs, cycle>>
       ELSE \E out \in {ConfigReconcileOutcome(c)} :
               /\ workloads' = out.workloads
               /\ configs' = [configs EXCEPT ![c].status = out.status]
               /\ last' = out.last
               /\ cycle' = out.cycle
    /\ UNCHANGED <<inflight, isa, groups, now, userActions>>

\* a reconcile of config c whose Status().Update fails: what was written to
\* the workloads stays written, the status stays as it was, the error is
\* returned
ConfigReconcileUpdateFails(c) ==
    /\ c \in ExistingConfigs
    /\ \E out \in {ConfigReconcileOutcome(c)} :
          /\ workloads' = out.workloads
          /\ last' = [out.last EXCEPT !.err = TRUE, !.requeueAfter = 0]
          /\ cycle' = out.cycle
    /\ UNCHANGED <<inflight, isa, configs, groups, now, userActions>>

-----------------------------------------------------------------------------
(* ScalingGroup reconciler *)

\* the stages of spec.sequence, then the namespaces no stage mentions
BuildStages(spec) ==
    IF Len(spec.sequence) > 0
    THEN LET stages == [i \in 1..Len(spec.sequence) |-> Fields(spec.sequence[i])]
             missing == SelectSeq(spec.namespaces,
                                  LAMBDA ns : ~\E i \in 1..Len(stages) : ns \in SeqToSet(stages[i]))
         IN  IF Len(missing) > 0 THEN Append(stages, missing) ELSE stages
    ELSE <<spec.namespaces>>

\* a slip: the stages are taken as written in both directions
StagesNotReversed(spec, targetActive) == BuildStages(spec)

\* the stages in execution order: as written for scale-up, reversed for scale-down
Stages(spec, targetActive) ==
    IF ~targetActive THEN Reverse(BuildStages(spec)) ELSE BuildStages(spec)

\* the sequence and exclusions a namespace inherits: those of a config of the
\* operator namespace whose targetNamespace it is, none when there is none
InheritedConfig(ns) ==
    LET m == {c \in ExistingConfigs : configs[c].spec.targetNamespace = ns}
    IN  IF m = {} THEN [sequence |-> <<>>, exclusions |-> <<>>]
        ELSE LET c == CHOOSE x \in m : TRUE
             IN  [sequence |-> configs[c].spec.sequence,
                  exclusions |-> configs[c].spec.exclusions]

\* the entries of the group's map under the namespace's prefix, prefix removed
NamespaceReplicas(orig, prefix) ==
    LET mine == {k \in DOMAIN orig : HasPrefix(k, prefix)}
    IN  [k2 \in {TrimPrefix(k, prefix) : k \in mine} |-> orig[prefix \o k2]]

\* a slip: the returned entries are stored under their own keys
MergeBackUnprefixed(rest, updated, prefix) ==
    [k \in DOMAIN rest \cup DOMAIN updated |->
        IF k \in DOMAIN updated THEN updated[k] ELSE rest[k]]

\* "Merge back": the rest of the map with the returned entries under the prefix
MergeBack(rest, updated, prefix) ==
    [k \in DOMAIN rest \cup {prefix \o k2 : k2 \in DOMAIN updated} |->
        IF HasPrefix(k, prefix) /\ TrimPrefix(k, prefix) \in DOMAIN updated
        THEN updated[TrimPrefix(k, prefix)]
        ELSE rest[k]]

\* a slip: the stage stays ready although the namespace's phase is off target
StageStillReadyIgnoringPhase(stageReady, nsReady, phaseOk) == stageReady /\ nsReady

\* stageReady after one namespace of the stage
StageStillReady(stageReady, nsReady, phaseOk) == stageReady /\ nsReady /\ phaseOk

\* the body of the loop over the namespaces of stage number i (1-based, in
\* execution order).  gs holds the workloads, the group's map, the counters
\* and flags of the reconcile, and its log.
\* r being what ScaleTarget returned for ns and phase what ComputePhase then
\* gave: the merge back, the counters, the flags, the blocking list
NamespaceScaled(gs, ns, i, targetActive, r, phase) ==
    LET prefix == ns \o <<"/">>
        rest == MapDel(gs.orig, {k \in DOMAIN gs.orig : HasPrefix(k, prefix)})
        phaseOk == (targetActive /\ phase = "ScaledUp") \/ (~targetActive /\ phase = "ScaledDown")
    IN  [gs EXCEPT
            !.wl = r.wl,
            !.orig = MergeBack(rest, r.orig, prefix),
            !.managedCount = @ + 1,
            !.namespacesTotal = @ + 1,
            !.namespacesReady = IF phaseOk THEN @ + 1 ELSE @,
            !.stageReady = StageStillReady(@, r.ready, phaseOk),
            !.allReady = @ /\ r.ready /\ phaseOk,
            !.blocking = IF ~phaseOk /\ ns \notin SeqToSet(@) THEN Append(@, ns) ELSE @,
            !.writes = @ \o [j \in 1..Len(r.writes) |->
                                [obj |-> r.writes[j].obj, ns |-> r.writes[j].ns,
                                 from |-> r.writes[j].from, to |-> r.writes[j].to,
                                 held |-> r.writes[j].held, stage |-> i]],
            !.nsLog = Append(@, [ns |-> ns, stage |-> i, failed |-> FALSE,
                                 nsReady |-> r.ready, phase |-> phase,
                                 visits |-> r.visits,
                                 given |-> NamespaceReplicas(gs.orig, prefix),
                                 returned |-> r.orig])]

\* a slip: the failing namespace is counted after the call, not before it
NamespaceFailedCountedLate(gs, ns, i) ==
    LET prefix == ns \o <<"/">>
    IN  [gs EXCEPT
            !.orig = MapDel(@, {k \in DOMAIN gs.orig : HasPrefix(k, prefix)}),
            !.namespacesTotal = @ + 1,
            !.allReady = FALSE,
            !.stageReady = FALSE,
            !.blocking = Append(@, ns),
            !.nsLog = Append(@, [ns |-> ns, stage |-> i, failed |-> TRUE,
                                 nsReady |-> FALSE, phase |-> "", visits |-> <<>>,
                                 given |-> NamespaceReplicas(gs.orig, prefix),
                                 returned |-> EmptyMap])]

\* ScaleTarget returned an error for ns: "failed to scale namespace".  The
\* entries of ns were taken out of the group's map before the call and the
\* merge back is not reached.
NamespaceFailed(gs, ns, i) ==
    LET prefix == ns \o <<"/">>
    IN  [gs EXCEPT
            !.orig = MapDel(@, {k \in DOMAIN gs.orig : HasPrefix(k, prefix)}),
            !.managedCount = @ + 1,
            !.allReady = FALSE,
            !.stageReady = FALSE,
            !.blocking = Append(@, ns),
            !.nsLog = Append(@, [ns |-> ns, stage |-> i, failed |-> TRUE,
                                 nsReady |-> FALSE, phase |-> "", visits |-> <<>>,
                                 given |-> NamespaceReplicas(gs.orig, prefix),
                                 returned |-> EmptyMap])]

\* "c. Check if namespace reached target phase", on the workloads as
\* ScaleTarget left them
NamespacePhase(gs, ns, i, targetActive, r) ==
    NamespaceScaled(gs, ns, i, targetActive, r, ComputePhase(r.wl, ns, targetActive))

\* gs.failing holds the namespaces whose Lists fail in this reconcile
ScaleNamespace(gs, ns, i, targetActive, timeoutPassed) ==
    LET inh == InheritedConfig(ns)
    IN  IF ns \in gs.failing THEN NamespaceFailed(gs, ns, i)
        ELSE NamespacePhase(gs, ns, i, targetActive,
                            ScaleTarget(gs.wl, ns, targetActive, inh.sequence,
                                        inh.exclusions,
                                        NamespaceReplicas(gs.orig, ns \o <<"/">>),
                                        timeoutPassed))

RECURSIVE StageNamespaces(_, _, _, _, _, _)
StageNamespaces(gs, stage, j, i, targetActive, timeoutPassed) ==
    IF j > Len(stage) THEN gs
    ELSE StageNamespaces(ScaleNamespace(gs, stage[j], i, targetActive, timeoutPassed),
                         stage, j + 1, i, targetActive, timeoutPassed)

RECURSIVE StageLoop(_, _, _, _, _)
\* "Iterate over stages", from stage i on, gs.stageReady telling whether the
\* stage before it was ready: stop after the first stage that is not ready
StageLoop(gs, stages, i, targetActive, timeoutPassed) ==
    IF i > Len(stages) \/ ~gs.stageReady THEN gs
    ELSE StageLoop(StageNamespaces([gs EXCEPT !.stageReady = TRUE], stages[i], 1, i,
                                   targetActive, timeoutPassed),
                   stages, i + 1, targetActive, timeoutPassed)

\* the number (index + 1) of the first stage holding the first blocking
\* namespace, 0 when no stage holds it
StageNumber(stages, blocking) ==
    LET hit == {i \in 1..Len(stages) : blocking[1] \in SeqToSet(stages[i])}
    IN  IF hit = {} THEN 0 ELSE CHOOSE i \in hit : \A j \in hit : i <= j

\* the events recorded by one reconcile
GroupEvents(gs, stages, timeoutPassed, oldStatus, newPhase) ==
    (IF ~gs.allReady /\ Len(gs.blocking) > 0
     THEN {[type |-> IF timeoutPassed THEN "Warning" ELSE "Normal",
            reason |-> IF timeoutPassed THEN "ScalingTimeout" ELSE "ScalingActive",
            stage |-> StageNumber(stages, gs.blocking),
            namespaces |-> gs.blocking]}
     ELSE {})
    \cup (IF gs.namespacesReady > oldStatus.namespacesReady
          THEN {[type |-> "Normal", reason |-> "ScalingProgress", stage |-> 0,
                 namespaces |-> <<>>]}
          ELSE {})
    \cup (IF oldStatus.phase # newPhase
          THEN {[type |-> "Normal", reason |-> "PhaseTransition", stage |-> 0,
                 namespaces |-> <<>>]}
          ELSE {})

\* a slip: the phase of a ready group keeps the default of its declaration
GroupPhaseDefaultUp(allReady, targetActive) ==
    IF allReady THEN "ScaledUp"
    ELSE (IF targetActive THEN "ScalingUp" ELSE "ScalingDown")

GroupPhase(allReady, targetActive) ==
    IF allReady THEN (IF targetActive THEN "ScaledUp" ELSE "ScaledDown")
    ELSE (IF targetActive THEN "ScalingUp" ELSE "ScalingDown")

\* the events, "5. Update Status" and the requeue, gs being what the loop
\* over the stages left
GroupResult(g, targetActive, stages, timeoutPassed, gs) ==
    LET grp == groups[g]
        newPhase == GroupPhase(gs.allReady, targetActive)
    IN  [workloads |-> gs.wl,
         status |-> [phase |-> newPhase,
                     lastAction |-> IF grp.status.phase # newPhase THEN now
                                    ELSE IF grp.status.lastAction = ZeroTime THEN now
                                    ELSE grp.status.lastAction,
                     originalReplicas |-> gs.orig,
                     managedCount |-> gs.managedCount,
                     namespacesReady |-> gs.namespacesReady,
                     namespacesTotal |-> gs.namespacesTotal],
         last |-> [kind |-> "group", name |-> g, found |-> TRUE, err |-> FALSE,
                   targetActive |-> targetActive, timeoutPassed |-> timeoutPassed,
                   stages |-> stages, nsLog |-> gs.nsLog, writes |-> gs.writes,
                   blocking |-> gs.blocking, ready |-> gs.allReady,
                   events |-> GroupEvents(gs, stages, timeoutPassed, grp.status, newPhase),
                   requeueAfter |-> RequeueAfter(gs.allReady)],
         cycle |-> Bookkeep(GroupDriver(g), targetActive, gs.allReady, gs.writes)]

\* the stages in execution order run through the loop
StagedOutcome(g, targetActive, stages, timeoutPassed, failing) ==
    GroupResult(g, targetActive, stages, timeoutPassed,
                StageLoop([wl |-> workloads, orig |-> groups[g].status.originalReplicas,
                           failing |-> failing, allReady |-> TRUE, stageReady |-> TRUE, managedCount |-> 0,
                           namespacesReady |-> 0, namespacesTotal |-> 0,
                           blocking |-> <<>>, writes |-> <<>>, nsLog |-> <<>>],
                          stages, 1, targetActive, timeoutPassed))

\* what one reconcile of the existing group g leaves when ScaleTarget
\* returns an error for the namespaces of failing
GroupReconcileOutcomeFailing(g, failing) ==
    LET grp == groups[g]
        targetActive == IsActive(grp.spec.schedules, grp.spec.active, now, 0)
    IN  StagedOutcome(g, targetActive, Stages(grp.spec, targetActive),
                      TimeoutPassed(grp.status.phase, grp.status.lastAction), failing)

\* what one reconcile of the existing group g leaves
GroupReconcileOutcome(g) == GroupReconcileOutcomeFailing(g, {})

GroupReconcile(g) ==
    /\ g \in DOMAIN groups
    /\ IF ~groups[g].exists
       THEN /\ last' = [kind |-> "group", name |-> g, found |-> FALSE, err |-> FALSE,
                        writes |-> <<>>, requeueAfter |-> 0]
            /\ UNCHANGED <<workloads, groups, cycle>>
       ELSE \E out \in {GroupReconcileOutcome(g)} :
               /\ workloads' = out.workloads
               /\ groups' = [groups EXCEPT ![g].status = out.status]
               /\ last' = out.last
               /\ cycle' = out.cycle
    /\ UNCHANGED <<inflight, isa, configs, now, userActions>>

\* a reconcile of the existing group g whose Status().Update fails
GroupReconcileUpdateFails(g) ==
    /\ g \in ExistingGroups
    /\ \E out \in {GroupReconcileOutcome(g)} :
          /\ workloads' = out.workloads
          /\ last' = [out.last EXCEPT !.err = TRUE, !.requeueAfter = 0]
          /\ cycle' = out.cycle
    /\ UNCHANGED <<inflight, isa, configs, groups, now, userActions>>

\* a reconcile of the existing group g in which the Lists of ScaleTarget
\* fail for one of its namespaces
GroupReconcileScaleFails(g) ==
    /\ g \in ExistingGroups
    /\ \E ns \in SeqToSet(groups[g].spec.namespaces) :
          \E out \in {GroupReconcileOutcomeFailing(g, {ns})} :
              /\ workloads' = out.workloads
              /\ groups' = [groups EXCEPT ![g].status = out.status]
              /\ last' = out.last
              /\ cycle' = out.cycle
    /\ UNCHANGED <<inflight, isa, configs, now, userActions>>

-----------------------------------------------------------------------------
(* The environment: users acting through the API, the clock, the cluster's  *)
(* workload controllers                                                     *)

\* POST .../configs/{name}/manual: the override is set or flipped
ConfigManual(c, v) ==
    /\ c \in ExistingConfigs
    /\ configs[c].spec.active # v
    /\ userActions < MaxUserActions
    /\ userActions' = userActions + 1
    /\ configs' = [configs EXCEPT ![c].spec.active = v]
    /\ last' = NoReconcile
    /\ UNCHANGED <<inflight, isa, workloads, groups, now, cycle>>

\* POST .../groups/{name}/manual
GroupManual(g, v) ==
    /\ g \in ExistingGroups
    /\ groups[g].spec.active # v
    /\ userActions < MaxUserActions
    /\ userActions' = userActions + 1
    /\ groups' = [groups EXCEPT ![g].spec.active = v]
    /\ last' = NoReconcile
    /\ UNCHANGED <<inflight, isa, workloads, configs, now, cycle>>

\* POST .../groups: the group's manifest is created, with an empty status
GroupCreate(g) ==
    /\ g \in DOMAIN groups
    /\ ~groups[g].exists
    /\ groups' = [groups EXCEPT ![g].exists = TRUE, ![g].status = ZeroStatus]
    /\ userActions < MaxUserActions
    /\ userActions' = userActions + 1
    /\ cycle' = [cycle EXCEPT ![GroupDriver(g)] = "none"]
    /\ last' = NoReconcile
    /\ UNCHANGED <<inflight, isa, workloads, configs, now>>

\* DELETE .../groups/{name}
GroupDelete(g) ==
    /\ g \in ExistingGroups
    /\ groups' = [groups EXCEPT ![g].exists = FALSE, ![g].status = ZeroStatus]
    /\ userActions < MaxUserActions
    /\ userActions' = userActions + 1
    /\ cycle' = [cycle EXCEPT ![GroupDriver(g)] = "none"]
    /\ last' = NoReconcile
    /\ UNCHANGED <<inflight, isa, workloads, configs, now>>

\* a minute passes
Tick ==
    /\ now < MaxTicks * Minute
    /\ now' = now + Minute
    /\ last' = NoReconcile
    /\ UNCHANGED <<inflight, isa, workloads, configs, groups, cycle, userActions>>

\* the workload's controller brings the pods to the desired count: new pods
\* are not ready yet, removed pods are gone
WorkloadSync(i) ==
    /\ i \in 1..Len(workloads)
    /\ workloads[i].replicas # workloads[i].spec
    /\ workloads' = [workloads EXCEPT
                        ![i].replicas = workloads[i].spec,
                        ![i].ready = IF workloads[i].ready > workloads[i].spec
                                     THEN workloads[i].spec ELSE workloads[i].ready]
    /\ last' = NoReconcile
    /\ UNCHANGED <<inflight, isa, configs, groups, now, cycle, userActions>>

\* the pods of the workload become ready
PodsReady(i) ==
    /\ i \in 1..Len(workloads)
    /\ workloads[i].ready < workloads[i].replicas
    /\ workloads' = [workloads EXCEPT ![i].ready = workloads[i].replicas]
    /\ last' = NoReconcile
    /\ UNCHANGED <<inflight, isa, configs, groups, now, cycle, userActions>>

Overrides == {Some(TRUE), Some(FALSE)}

Next ==
    \/ \E c \in DOMAIN configs : ConfigReconcile(c)
    \/ \E g \in DOMAIN groups : GroupReconcile(g)
    \/ \E c \in DOMAIN configs, v \in Overrides : ConfigManual(c, v)
    \/ \E g \in DOMAIN groups, v \in Overrides : GroupManual(g, v)
    \/ \E g \in DOMAIN groups : GroupCreate(g)
    \/ \E g \in DOMAIN groups : GroupDelete(g)
    \/ Tick
    \/ \E i \in 1..Len(workloads) : WorkloadSync(i)
    \/ \E i \in 1..Len(workloads) : PodsReady(i)

-----------------------------------------------------------------------------
(* Clusters *)

NsA == <<"a">>
NsB == <<"b">>
NsC == <<"c">>

\* every day, from 00:01 to 00:01
MinuteOneWindow ==
    Schedule(AllDays, <<"0", ":", "0", "1">>, <<"0", "0", ":", "0", "1">>, "UTC")

ConfigObject(ns, active, sequence, exclusions) ==
    [exists |-> TRUE,
     spec |-> [targetNamespace |-> ns, active |-> active, schedules |-> <<MinuteOneWindow>>,
               sequence |-> sequence, exclusions |-> exclusions],
     status |-> ZeroConfigStatus]

GroupObject(exists, namespaces, active, sequence) ==
    [exists |-> exists,
     spec |-> [namespaces |-> namespaces, active |-> active, schedules |-> <<>>,
               sequence |-> sequence],
     status |-> ZeroStatus]

InitBookkeeping ==
    /\ isa = IsaIdle
    /\ now = 0
    /\ last = NoReconcile
    /\ cycle = [d \in {ConfigDriver(c) : c \in DOMAIN configs}
                      \cup {GroupDriver(g) : g \in DOMAIN groups} |-> "none"]
    /\ userActions = 0
    /\ inflight = {}

\* one namespace with a sequenced config, an excluded StatefulSet, and a
\* group over the same namespace that comes and goes
Init ==
    /\ \E n \in {0, MaxReplicas} :
          workloads = << Workload(NsA, Deployment, <<"d", "b">>, n),
                         Workload(NsA, Deployment, <<"w", "e", "b">>, 1),
                         Workload(NsA, StatefulSet, <<"s", "y", "s", "-", "1">>, 1) >>
    /\ \E v \in Overrides \cup {None} :
          configs = [c \in {"cfg-a"} |->
                        ConfigObject(NsA, v, << <<"d", "b">>, Star >>,
                                     << <<" ", "s", "y", "s", "-", "*">> >>)]
    /\ groups = [g \in {"grp"} |-> GroupObject(FALSE, <<NsA>>, Some(TRUE), <<>>)]
    /\ InitBookkeeping

Spec == Init /\ [][Next]_vars

\* three namespaces in two stages, "a" then "b c", under one group; a config
\* for "a" beside it
InitStaged ==
    /\ workloads = << Workload(NsA, Deployment, <<"a", "p", "i">>, MaxReplicas),
                    Workload(NsB, Deployment, <<"w", "e", "b">>, 1),
                    Workload(NsC, StatefulSet, <<"j", "o", "b">>, 1) >>
    /\ configs = [c \in {"cfg-a"} |-> ConfigObject(NsA, Some(TRUE), <<>>, <<>>)]
    /\ \E v \in {Some(TRUE), Some(FALSE)} :
          groups = [g \in {"grp"} |->
                       GroupObject(TRUE, <<NsA, NsB, NsC>>, v,
                                   << <<"a">>, <<"b", " ", "c">> >>)]
    /\ InitBookkeeping

SpecStaged == InitStaged /\ [][Next]_vars

\* the group of that cluster on its own, with an API server whose Lists may
\* fail
NextScaleFaults ==
    \/ \E g \in DOMAIN groups : GroupReconcile(g)
    \/ \E g \in DOMAIN groups : GroupReconcileScaleFails(g)
    \/ \E g \in DOMAIN groups, v \in Overrides : GroupManual(g, v)
    \/ Tick
    \/ \E i \in 1..Len(workloads) : WorkloadSync(i)
    \/ \E i \in 1..Len(workloads) : PodsReady(i)

SpecScaleFaults == InitStaged /\ [][NextScaleFaults]_vars

\* a config over namespace a, switched on and off, and a group over
\* namespace b that is to be down, side by side, with an API server whose
\* status updates may fail
InitUpdateFaults ==
    /\ workloads = << Workload(NsA, Deployment, <<"w", "e", "b">>, MaxReplicas),
                      Workload(NsB, StatefulSet, <<"j", "o", "b">>, 1) >>
    /\ \E v \in Overrides :
          configs = [c \in {"cfg-a"} |-> ConfigObject(NsA, v, <<>>, <<>>)]
    /\ groups = [g \in {"grp"} |-> GroupObject(TRUE, <<NsB>>, Some(FALSE), <<>>)]
    /\ InitBookkeeping

NextUpdateFaults ==
    \/ \E c \in DOMAIN configs : ConfigReconcile(c)
    \/ \E c \in DOMAIN configs : ConfigReconcileUpdateFails(c)
    \/ \E g \in DOMAIN groups : GroupReconcile(g)
    \/ \E g \in DOMAIN groups : GroupReconcileUpdateFails(g)
    \/ \E c \in DOMAIN configs, v \in Overrides : ConfigManual(c, v)
    \/ Tick
    \/ \E i \in 1..Len(workloads) : WorkloadSync(i)
    \/ \E i \in 1..Len(workloads) : PodsReady(i)

SpecUpdateFaults == InitUpdateFaults /\ [][NextUpdateFaults]_vars

\* three namespaces under one group whose sequence names two of them one by
\* one, all of them in two stages, or none
InitOrdered ==
    /\ workloads = << Workload(NsA, Deployment, <<"a", "p", "i">>, 1),
                      Workload(NsB, Deployment, <<"w", "e", "b">>, 1),
                      Workload(NsC, StatefulSet, <<"j", "o", "b">>, 1) >>
    /\ configs = [c \in {"cfg-a"} |-> ConfigObject(NsA, Some(TRUE), <<>>, <<>>)]
    /\ \E v \in Overrides, q \in { << <<"a">>, <<"b">> >>,
                                    << <<"a">>, <<" ", "c", "\t", "b", " ">> >>,
                                    <<>> } :
          groups = [g \in {"grp"} |-> GroupObject(TRUE, <<NsA, NsB, NsC>>, v, q)]
    /\ InitBookkeeping

SpecOrdered == InitOrdered /\ [][Next]_vars

\* two namespaces; a config for "a", the name of a config that is gone, and
\* a group over both namespaces that comes and goes
InitLifecycle ==
    /\ workloads = << Workload(NsA, Deployment, <<"w", "e", "b">>, 1),
                      Workload(NsB, StatefulSet, <<"j", "o", "b">>, 1) >>
    /\ \E v \in Overrides :
          configs = [c \in {"cfg-a", "cfg-gone"} |->
                        IF c = "cfg-a" THEN ConfigObject(NsA, v, <<>>, <<>>)
                        ELSE [ConfigObject(NsB, None, <<>>, <<>>) EXCEPT !.exists = FALSE]]
    /\ \E v \in Overrides :
          groups = [g \in {"grp"} |-> GroupObject(FALSE, <<NsA, NsB>>, v, <<>>)]
    /\ InitBookkeeping

SpecLifecycle == InitLifecycle /\ [][Next]_vars

\* a group over namespace "a" alone whose sequence also names "b", and a
\* config that keeps "b" up
InitSequenceOnly ==
    /\ workloads = << Workload(NsA, Deployment, <<"a", "p", "i">>, 1),
                      Workload(NsB, Deployment, <<"w", "e", "b">>, 1) >>
    /\ configs = [c \in {"cfg-b"} |-> ConfigObject(NsB, Some(TRUE), <<>>, <<>>)]
    /\ \E v \in Overrides :
          groups = [g \in {"grp"} |->
                       GroupObject(TRUE, <<NsA>>, v, << <<"a">>, <<"b">> >>)]
    /\ InitBookkeeping

SpecSequenceOnly == InitSequenceOnly /\ [][Next]_vars

\* one namespace under one config with a sequence and no exclusions, no group:
\* the config is requeued after every reconcile, the workload controllers
\* bring the pods to the desired counts and the pods become ready
InitRequeued ==
    /\ \E n \in {0, MaxReplicas} :
          workloads = << Workload(NsA, Deployment, <<"d", "b">>, n),
                         Workload(NsA, StatefulSet, <<"w", "e", "b">>, 1) >>
    /\ \E v \in Overrides :
          configs = [c \in {"cfg-a"} |-> ConfigObject(NsA, v, << <<"d", "b">>, Star >>, <<>>)]
    /\ groups = EmptyMap
    /\ InitBookkeeping

NextRequeued ==
    \/ \E c \in DOMAIN configs : ConfigReconcile(c)
    \/ \E c \in DOMAIN configs, v \in Overrides : ConfigManual(c, v)
    \/ Tick
    \/ \E i \in 1..Len(workloads) : WorkloadSync(i)
    \/ \E i \in 1..Len(workloads) : PodsReady(i)

\* a reconcile of the existing config c would change the state: what
\* ENABLED <<ConfigReconcile(c)>>_vars says, computed from the outcome
ReconcileChanges(c) ==
    /\ c \in ExistingConfigs
    /\ \E out \in {ConfigReconcileOutcome(c)} :
          <<out.workloads, out.status, out.last, out.cycle>>
              # <<workloads, configs[c].status, last, cycle>>

\* every return of the reconcile carries a RequeueAfter, so the reconcile of an
\* existing config runs again and again: weak fairness of ConfigReconcile,
\* written out with ReconcileChanges for its enabling condition; the workload
\* controllers and the pods are weakly fair
SpecRequeued ==
    /\ InitRequeued
    /\ [][NextRequeued]_vars
    /\ \A c \in {"cfg-a"} :
          ([]<>~ReconcileChanges(c)) \/ ([]<><<ConfigReconcile(c)>>_vars)
    /\ \A i \in 1..2 : WF_vars(WorkloadSync(i)) /\ WF_vars(PodsReady(i))

\* namespace "a" under two configs and namespace "b" under two groups, one of
\* each pair holding its namespace up and the other holding it down; the
\* reconciles follow each other within the first minute
InitOverlap ==
    /\ workloads = << Workload(NsA, Deployment, <<"w", "e", "b">>, 1),
                      Workload(NsB, StatefulSet, <<"j", "o", "b">>, 1) >>
    /\ configs = [c \in {"cfg-up", "cfg-down"} |->
                     ConfigObject(NsA, Some(c = "cfg-up"), <<>>, <<>>)]
    /\ groups = [g \in {"grp-up", "grp-down"} |->
                    GroupObject(TRUE, <<NsB>>, Some(g = "grp-up"), <<>>)]
    /\ InitBookkeeping

NextOverlap ==
    \/ \E c \in DOMAIN configs : ConfigReconcile(c)
    \/ \E g \in DOMAIN groups : GroupReconcile(g)
    \/ \E i \in 1..Len(workloads) : WorkloadSync(i)
    \/ \E i \in 1..Len(workloads) : PodsReady(i)

\* a reconcile of the existing group g would change the state
GroupReconcileChanges(g) ==
    /\ g \in ExistingGroups
    /\ \E out \in {GroupReconcileOutcome(g)} :
          <<out.workloads, out.status, out.last, out.cycle>>
              # <<workloads, groups[g].status, last, cycle>>

\* every config and every group is requeued after each of its reconciles (weak
\* fairness of the reconciles, the enabling conditions written out); the
\* workload controllers and the pods are weakly fair
SpecOverlap ==
    /\ InitOverlap
    /\ [][NextOverlap]_vars
    /\ \A c \in {"cfg-up", "cfg-down"} :
          ([]<>~ReconcileChanges(c)) \/ ([]<><<ConfigReconcile(c)>>_vars)
    /\ \A g \in {"grp-up", "grp-down"} :
          ([]<>~GroupReconcileChanges(g)) \/ ([]<><<GroupReconcile(g)>>_vars)
    /\ \A i \in 1..2 : WF_vars(WorkloadSync(i)) /\ WF_vars(PodsReady(i))

\* The reconcile of a config in two steps, other requests reaching the API
\* server in between.  First step: the Get and "1.5 Conflict Resolution", which
\* ends the reconcile when a group lists the namespace.
ConfigListGroups(c) ==
    /\ c \in ExistingConfigs
    /\ c \notin inflight
    /\ IF ManagedByGroup(configs[c].spec.targetNamespace)
       THEN \E out \in {OverriddenOutcome(c)} :
               /\ workloads' = out.workloads
               /\ configs' = [configs EXCEPT ![c].status = out.status]
               /\ last' = out.last
               /\ cycle' = out.cycle
               /\ inflight' = inflight
       ELSE /\ inflight' = inflight \cup {c}
            /\ last' = NoReconcile
            /\ UNCHANGED <<workloads, configs, cycle>>
    /\ UNCHANGED <<isa, groups, now, userActions>>

\* second step: "2. Determine desired state" to the end, on the cluster as it
\* is by then
ConfigScale(c) ==
    /\ c \in inflight
    /\ \E out \in {ScalingOutcome(c)} :
          /\ workloads' = out.workloads
          /\ configs' = [configs EXCEPT ![c].status = out.status]
          /\ last' = out.last
          /\ cycle' = out.cycle
    /\ inflight' = inflight \ {c}
    /\ UNCHANGED <<isa, groups, now, userActions>>

\* a config over namespace "a" and a group over "a" that is yet to be created
InitInterleaved ==
    /\ workloads = << Workload(NsA, Deployment, <<"w", "e", "b">>, MaxReplicas) >>
    /\ \E v \in Overrides :
          configs = [c \in {"cfg-a"} |-> ConfigObject(NsA, v, <<>>, <<>>)]
    /\ \E v \in Overrides :
          groups = [g \in {"grp"} |-> GroupObject(FALSE, <<NsA>>, v, <<>>)]
    /\ InitBookkeeping

NextInterleaved ==
    \/ \E c \in DOMAIN configs : ConfigListGroups(c)
    \/ \E c \in DOMAIN configs : ConfigScale(c)
    \/ \E g \in DOMAIN groups : GroupCreate(g)
    \/ \E g \in DOMAIN groups : GroupReconcile(g)
    \/ Tick
    \/ \E i \in 1..Len(workloads) : WorkloadSync(i)
    \/ \E i \in 1..Len(workloads) : PodsReady(i)

SpecInterleaved == InitInterleaved /\ [][NextInterleaved]_vars

-----------------------------------------------------------------------------
(* The engine called on its own: a namespace in any state of its workloads,  *)
(* and one call of one of the engine's functions, logged in last             *)

NameDb == <<"d", "b">>
NameWeb == <<"w", "e", "b">>
NameSys == <<"s", "y", "s", "-", "1">>
NameRedis == <<"r", "e", "d", "i", "s", "-", "d", "b", "-", "p", "r", "o", "x", "y">>

\* a workload in a state of its own: desired, observed and ready counts
WorkloadAt(ns, kind, name, spec, replicas, ready) ==
    [ns |-> ns, kind |-> kind, name |-> name, spec |-> spec, replicas |-> replicas,
     ready |-> ready, initial |-> spec]

\* the desired, observed and ready counts a workload can show
Counts ==
    {c \in (0..MaxReplicas) \X (0..MaxReplicas) \X (0..MaxReplicas) : c[3] <= c[2]}

SettledCounts == {<<0, 0, 0>>, <<1, 1, 1>>}

InitEngine ==
    /\ \E d \in Counts, w \in Counts, y \in SettledCounts :
          workloads = << WorkloadAt(NsA, Deployment, NameDb, d[1], d[2], d[3]),
                         WorkloadAt(NsA, Deployment, NameWeb, w[1], w[2], w[3]),
                         WorkloadAt(NsA, StatefulSet, NameSys, y[1], y[2], y[3]) >>
    /\ configs = EmptyMap
    /\ groups = EmptyMap
    /\ isa = IsaIdle
    /\ now = 0
    /\ last = NoReconcile
    /\ cycle = EmptyMap
    /\ userActions = 0
    /\ inflight = {}

SampleSequences ==
    { <<>>,
      << NameDb, Star >>,
      << <<"w", "e", "b", "-", "a", "p", "i">>, <<"d", "*">> >>,
      << <<"s", "y", "s", "*">>, NameDb >> }

SampleExclusions ==
    { <<>>, << Star >>, << <<" ", "w", "e", "b", " ">>, <<>> >> }

SampleOriginals ==
    { EmptyMap, [k \in {<<Deployment, "/">> \o NameDb} |-> MaxReplicas] }

\* one call of Engine.ScaleTarget on namespace a
CallScaleTarget ==
    /\ last.kind = "none"
    /\ \E active \in BOOLEAN, timeoutPassed \in BOOLEAN, sequence \in SampleSequences,
          exclusions \in SampleExclusions, originalReplicas \in SampleOriginals :
          \E r \in {ScaleTarget(workloads, NsA, active, sequence, exclusions,
                                originalReplicas, timeoutPassed)} :
              /\ workloads' = r.wl
              /\ last' = [kind |-> "ScaleTarget", ns |-> NsA, active |-> active,
                          sequence |-> sequence, exclusions |-> exclusions,
                          originalReplicas |-> originalReplicas,
                          timeoutPassed |-> timeoutPassed, before |-> workloads,
                          orig |-> r.orig, ready |-> r.ready, writes |-> r.writes,
                          visits |-> r.visits]
    /\ UNCHANGED <<inflight, isa, configs, groups, now, cycle, userActions>>

SampleObjs == { <<>>, <<1>>, <<3>>, <<1, 2>>, <<2, 3, 1>> }

\* one call of Engine.isGroupReady
CallIsGroupReady ==
    /\ last.kind = "none"
    /\ \E objs \in SampleObjs, targetActive \in BOOLEAN :
          last' = [kind |-> "isGroupReady", objs |-> objs, targetActive |-> targetActive,
                   result |-> isGroupReady(workloads, objs, targetActive)]
    /\ UNCHANGED <<inflight, isa, workloads, configs, groups, now, cycle, userActions>>

\* one call of Engine.ComputePhase, on namespace a or on the empty namespace b
CallComputePhase ==
    /\ last.kind = "none"
    /\ \E ns \in {NsA, NsB}, targetActive \in BOOLEAN :
          last' = [kind |-> "ComputePhase", ns |-> ns, targetActive |-> targetActive,
                   result |-> ComputePhase(workloads, ns, targetActive)]
    /\ UNCHANGED <<inflight, isa, workloads, configs, groups, now, cycle, userActions>>

SampleNames ==
    { NameDb, NameWeb, NameRedis, <<"d", "b", "-", "p", "g">>, <<" ", "d", "b", " ">>,
      <<"d">>, <<>> }

SamplePatterns ==
    { Star, NameDb, <<"d", "b", "*">>, <<"d", "b", "-", "p", "g">>, <<" ", "d", "*", " ">>,
      <<"w", "e", "b", " ", "d", "b">>, <<"*", "b">>, <<" ">>, <<>>, NameRedis }

\* one call of getSequenceIndex, of isExcluded
CallGetSequenceIndex ==
    /\ last.kind = "none"
    /\ \E name \in SampleNames, sequence \in SeqsUpTo(SamplePatterns, MaxPatterns) :
          last' = [kind |-> "getSequenceIndex", name |-> name, sequence |-> sequence,
                   result |-> getSequenceIndex(name, sequence)]
    /\ UNCHANGED <<inflight, isa, workloads, configs, groups, now, cycle, userActions>>

CallIsExcluded ==
    /\ last.kind = "none"
    /\ \E name \in SampleNames, exclusions \in SeqsUpTo(SamplePatterns, MaxPatterns) :
          last' = [kind |-> "isExcluded", name |-> name, exclusions |-> exclusions,
                   result |-> isExcluded(name, exclusions)]
    /\ UNCHANGED <<inflight, isa, workloads, configs, groups, now, cycle, userActions>>

NextEngine ==
    \/ CallScaleTarget
    \/ CallIsGroupReady
    \/ CallComputePhase

SpecEngine == InitEngine /\ [][NextEngine]_vars

\* the name matchers need no cluster
InitMatchers == isa = IsaIdle /\ ClusterIdle

NextMatchers == CallGetSequenceIndex \/ CallIsExcluded

SpecMatchers == InitMatchers /\ [][NextMatchers]_vars

-----------------------------------------------------------------------------
(* Claims about the reconcilers.  last is the log of the reconcile that     *)
(* produced the state, NoReconcile when the environment moved last.         *)

Reconciled == last.kind # "none"

ConfigReconciled == last.kind = "config" /\ last.found

GroupReconciled == last.kind = "group" /\ last.found

\* the exclusions of the ScalingConfig governing workload w in the last
\* reconcile: the reconciled config's own, or those the group inherited from
\* the config whose targetNamespace is w's namespace
GoverningExclusions(w) ==
    IF last.kind = "config" THEN configs[last.name].spec.exclusions
    ELSE LET m == {c \in ExistingConfigs : configs[c].spec.targetNamespace = w.ns}
         IN  UNION {SeqToSet(configs[c].spec.exclusions) : c \in m}

\* name matches the pattern: "*", a prefix followed by "*", or the name itself
MatchesPattern(name, pattern) ==
    LET ex == TrimSpace(pattern)
    IN  /\ ex # <<>>
        /\ \/ ex = Star
           \/ ex[Len(ex)] = "*" /\ HasPrefix(name, SubSeq(ex, 1, Len(ex) - 1))
           \/ ex = name

Governed(w) ==
    LET E == GoverningExclusions(w)
    IN  IF last.kind = "config" THEN \E i \in 1..Len(E) : MatchesPattern(w.name, E[i])
        ELSE \E pattern \in E : MatchesPattern(w.name, pattern)

\* some config targeting w's namespace lists a pattern that w's name matches
ExcludedByConfig(w) ==
    \E c \in ExistingConfigs :
        /\ configs[c].spec.targetNamespace = w.ns
        /\ \E k \in 1..Len(configs[c].spec.exclusions) :
              MatchesPattern(w.name, configs[c].spec.exclusions[k])

SeenReady(visits) ==
    UNION {SeqToSet(visits[j].objs) : j \in {x \in 1..Len(visits) : visits[x].readyAfter}}

ObservedRestored(l) ==
    IF l.kind = "config" THEN (IF l.targetActive THEN SeenReady(l.visits) ELSE {})
    ELSE IF l.kind = "group" /\ l.found /\ l.targetActive
    THEN UNION {SeenReady(l.nsLog[j].visits) : j \in 1..Len(l.nsLog)}
    ELSE {}

\* the key of workload w in the map of a config, of a group
ConfigKey(w) == Key(w)

GroupKey(w) == w.ns \o <<"/">> \o Key(w)

\* an entry of a map that outlives the step is dropped only for a workload
\* the step's reconcile observed restored
EntriesKept ==
    /\ \A c \in ExistingConfigs, i \in 1..Len(workloads) :
          (/\ workloads[i].ns = configs[c].spec.targetNamespace
           /\ ConfigKey(workloads[i]) \in DOMAIN configs[c].status.originalReplicas
           /\ ConfigKey(workloads[i]) \notin DOMAIN configs'[c].status.originalReplicas)
          => (last'.kind = "config" /\ last'.name = c /\ i \in ObservedRestored(last'))
    /\ \A g \in ExistingGroups, i \in 1..Len(workloads) :
          (/\ groups'[g].exists
           /\ GroupKey(workloads[i]) \in DOMAIN groups[g].status.originalReplicas
           /\ GroupKey(workloads[i]) \notin DOMAIN groups'[g].status.originalReplicas)
          => (last'.kind = "group" /\ last'.name = g /\ i \in ObservedRestored(last'))

\* every write of 0 over a count r >= 1 was issued with r on record
ZeroWritesRecorded ==
    Reconciled =>
        \A j \in 1..Len(last.writes) :
            (last.writes[j].to = 0 /\ last.writes[j].from >= 1)
            => last.writes[j].held = last.writes[j].from

NotWritten(i) == \A j \in 1..Len(last.writes) : last.writes[j].obj # i

\* workload i stands at its original count n >= 1 with at least n ready
\* replicas, and stood so when the last reconcile looked at it
RestoredAndReady(i) ==
    /\ workloads[i].initial >= 1
    /\ workloads[i].spec = workloads[i].initial
    /\ workloads[i].ready >= workloads[i].spec
    /\ NotWritten(i)

\* C5: once a workload scaled down from n >= 1 has been scaled back up by the
\* same config or group and stands at desired count n with at least n ready
\* replicas, a reconcile with the target active that observes it so leaves no
\* entry for it in status.originalReplicas.
C5_EntryRemovedOnceRestored ==
    /\ (/\ ConfigReconciled /\ last.scaleCalled /\ last.targetActive
        /\ cycle[ConfigDriver(last.name)] = "up") =>
          \A i \in 1..Len(workloads) :
              (/\ workloads[i].ns = configs[last.name].spec.targetNamespace
               /\ RestoredAndReady(i))
              => ConfigKey(workloads[i])
                    \notin DOMAIN configs[last.name].status.originalReplicas
    /\ (GroupReconciled /\ last.targetActive /\ cycle[GroupDriver(last.name)] = "up") =>
          \A i \in 1..Len(workloads) :
              (/\ \E j \in 1..Len(last.nsLog) : last.nsLog[j].ns = workloads[i].ns
               /\ RestoredAndReady(i))
              => GroupKey(workloads[i])
                    \notin DOMAIN groups[last.name].status.originalReplicas

ListedByGroup(ns) ==
    \E g \in DOMAIN groups : groups[g].exists /\ ns \in SeqToSet(groups[g].spec.namespaces)

OverriddenStep(c) ==
    /\ last'.kind = "config"
    /\ last'.name = c
    /\ ListedByGroup(configs[c].spec.targetNamespace)

InertStep(c) ==
    /\ workloads' = workloads
    /\ last'.writes = <<>>
    /\ ~last'.scaleCalled
    /\ configs'[c].status.originalReplicas = configs[c].status.originalReplicas
    /\ configs'[c].status.phase = "OverriddenByGroup"
    /\ configs'[c].status.lastAction = now
    /\ last'.requeueAfter = 5 * Minute

TargetPhase(targetActive) == IF targetActive THEN "ScaledUp" ELSE "ScaledDown"

\* the last group reconcile found namespace ns of stage k ready: ScaleTarget
\* reported ready and ComputePhase gave the target phase
FoundReady(ns, k) ==
    \E j \in 1..Len(last.nsLog) :
        /\ last.nsLog[j].ns = ns
        /\ last.nsLog[j].stage = k
        /\ last.nsLog[j].nsReady
        /\ last.nsLog[j].phase = TargetPhase(last.targetActive)

\* C9: in a group reconcile with timeoutPassed false, a workload of a
\* namespace of a later stage (in execution order) is written only if every
\* namespace of every stage before it was found ready in that reconcile.
C9_StageBarrier ==
    (GroupReconciled /\ ~last.timeoutPassed) =>
        \A j \in 1..Len(last.writes) :
            \A k \in 1..(last.writes[j].stage - 1) :
                \A ns \in SeqToSet(last.stages[k]) : FoundReady(ns, k)

\* a group reconcile within the timeout window wrote to its second stage
C9_Witness ==
    /\ GroupReconciled
    /\ ~last.timeoutPassed
    /\ Len(last.stages) >= 2
    /\ \E j \in 1..Len(last.writes) : last.writes[j].stage = 2

\* the namespaces of the first stage (in execution order) that the last group
\* reconcile did not find at the target phase
FirstStageBlockers ==
    {last.nsLog[j].ns : j \in {x \in 1..Len(last.nsLog) :
        last.nsLog[x].stage = 1 /\ last.nsLog[x].phase # TargetPhase(last.targetActive)}}

\* the last reconcile of the group ran with the target active, the phase
\* ScalingUp for more than a minute, and its first stage not ready
TimedOutOnFirstStage ==
    /\ GroupReconciled
    /\ last.targetActive
    /\ last.timeoutPassed
    /\ Len(last.stages) >= 2
    /\ groups[last.name].status.phase = "ScalingUp"
    /\ now - groups[last.name].status.lastAction > Minute
    /\ FirstStageBlockers # {}

\* C10: with the target active, the phase ScalingUp for more than 60 s and
\* the first stage still not ready, the reconcile goes on into the second
\* stage and records a ScalingTimeout event naming the first stage's blockers.
C10_TimeoutEntersNextStage ==
    TimedOutOnFirstStage =>
        /\ \E j \in 1..Len(last.nsLog) : last.nsLog[j].stage = 2
        /\ \E e \in last.events :
              /\ e.reason = "ScalingTimeout"
              /\ SeqToSet(e.namespaces) = FirstStageBlockers

-----------------------------------------------------------------------------
(* Claims about the order of the stages *)

\* the maximal runs of non-space characters of s, as <<first, last>> positions
Runs(s) ==
    {r \in (1..Len(s)) \X (1..Len(s)) :
        /\ r[1] <= r[2]
        /\ \A k \in r[1]..r[2] : s[k] \notin Space
        /\ (r[1] = 1 \/ s[r[1] - 1] \in Space)
        /\ (r[2] = Len(s) \/ s[r[2] + 1] \in Space)}

\* the words of a sequence element, from left to right
Words(s) ==
    LET starts == SortInts({r[1] : r \in Runs(s)})
    IN  [n \in 1..Len(starts) |->
            LET r == CHOOSE x \in Runs(s) : x[1] = starts[n]
            IN  SubSeq(s, r[1], r[2])]

\* the stages the group's spec describes, in scale-up order
DescribedStages(spec) ==
    IF Len(spec.sequence) = 0 THEN <<spec.namespaces>>
    ELSE LET named == [i \in 1..Len(spec.sequence) |-> Words(spec.sequence[i])]
             mentioned == UNION {SeqToSet(named[i]) : i \in 1..Len(named)}
             unmentioned == SelectSeq(spec.namespaces, LAMBDA ns : ns \notin mentioned)
         IN  IF Len(unmentioned) = 0 THEN named ELSE named \o <<unmentioned>>

\* the described stages in the order of the direction: mirrored when inactive
DescribedOrder(spec, targetActive) ==
    LET st == DescribedStages(spec)
    IN  IF targetActive THEN st ELSE [i \in 1..Len(st) |-> st[Len(st) + 1 - i]]

RECURSIVE Visits(_, _)
\* the namespaces of the stages from the k-th on, each with its stage number,
\* in the order a reconcile that is never stopped goes through them
Visits(stages, k) ==
    IF k > Len(stages) THEN <<>>
    ELSE [j \in 1..Len(stages[k]) |-> [ns |-> stages[k][j], stage |-> k]]
         \o Visits(stages, k + 1)

\* the last group reconcile went through the namespaces in the described
\* order, as far as it went
InDescribedOrder ==
    LET order == DescribedOrder(groups[last.name].spec, last.targetActive)
        all == Visits(order, 1)
    IN  /\ last.stages = order
        /\ Len(last.nsLog) <= Len(all)
        /\ \A j \in 1..Len(last.nsLog) :
              last.nsLog[j].ns = all[j].ns /\ last.nsLog[j].stage = all[j].stage
        /\ last.ready => Len(last.nsLog) = Len(all)
        /\ \A j \in 1..Len(last.writes) :
              /\ last.writes[j].ns \in SeqToSet(order[last.writes[j].stage])
              /\ \A k \in 1..(j - 1) : last.writes[k].stage <= last.writes[j].stage

\* C11: a group reconcile builds its stages from spec.sequence (each element
\* split on white space, the namespaces no element mentions appended as a last
\* stage, one stage of all namespaces when the sequence is empty) and goes
\* through them in that order when the target is active, in the reverse order
\* when it is inactive.
C11_StagesInDescribedOrder == GroupReconciled => InDescribedOrder

\* a scale-down went through three stages, the unmentioned namespace first
C11_Witness ==
    /\ GroupReconciled
    /\ ~last.targetActive
    /\ groups[last.name].spec.sequence = << <<"a">>, <<"b">> >>
    /\ last.stages = << <<NsC>>, <<NsB>>, <<NsA>> >>
    /\ Len(last.nsLog) = 3
    /\ last.nsLog[1].ns = NsC
    /\ last.nsLog[3].ns = NsA

-----------------------------------------------------------------------------
(* Claims about the timeout bypass *)

\* in the last group reconcile ScaleTarget left a priority group of namespace
\* ns unready and went on: to a later priority group of the namespace, or
\* back to the reconciler with ready reported, which went on to a later
\* namespace
PassedUnready(ns) ==
    \E j \in 1..Len(last.nsLog) :
        /\ last.nsLog[j].ns = ns
        /\ \E v \in 1..Len(last.nsLog[j].visits) :
              /\ ~last.nsLog[j].visits[v].readyAfter
              /\ (v < Len(last.nsLog[j].visits) \/ j < Len(last.nsLog))

\* the last reconcile recorded a ScalingTimeout warning that names ns
WarnedAbout(ns) ==
    \E e \in last.events :
        /\ e.type = "Warning"
        /\ e.reason = "ScalingTimeout"
        /\ ns \in SeqToSet(e.namespaces)

\* C12: whenever a group reconcile with timeoutPassed true lets scaling go on
\* past an unready priority group or stage, the same reconcile records a
\* Warning event with reason ScalingTimeout that names the blocking namespace.
C12_BypassIsWarned ==
    (GroupReconciled /\ last.timeoutPassed) =>
        \A j \in 1..Len(last.nsLog) :
            PassedUnready(last.nsLog[j].ns) => WarnedAbout(last.nsLog[j].ns)

-----------------------------------------------------------------------------
(* Claims about the group's counters *)

\* the number of namespaces in the stages of the last group reconcile
NamespacesInStages == Len(Visits(last.stages, 1))

\* C18: after every group reconcile status.namespacesTotal is the number of
\* namespaces of the group, all namespaces of all stages, however many stages
\* the reconcile went through before it stopped.
C18_TotalCountsEveryNamespace ==
    GroupReconciled =>
        groups[last.name].status.namespacesTotal = NamespacesInStages

-----------------------------------------------------------------------------
(* Claims about the engine called on its own *)

ScaleTargetCalled == last.kind = "ScaleTarget"

\* C13: with exclusions = ["*"], ScaleTarget with the target inactive writes
\* no workload of the namespace and returns originalReplicas as it was given,
\* whatever the workloads and the sequence are.
C13_CatchAllExclusionFreezes ==
    (ScaleTargetCalled /\ ~last.active /\ last.exclusions = <<Star>>) =>
        /\ last.writes = <<>>
        /\ workloads = last.before
        /\ last.orig = last.originalReplicas

\* a scale-down under ["*"] of running workloads, with a sequence and a record
C13_Witness ==
    /\ ScaleTargetCalled
    /\ ~last.active
    /\ last.exclusions = <<Star>>
    /\ last.sequence # <<>>
    /\ DOMAIN last.originalReplicas # {}
    /\ \A i \in 1..Len(last.before) : last.before[i].spec >= 1

\* workload w has reached the target: up, a positive desired count met by the
\* ready replicas; down, no replica left and none ready
ReachedTarget(w, targetActive) ==
    IF targetActive THEN w.spec > 0 /\ w.ready >= w.spec
    ELSE w.replicas = 0 /\ w.ready = 0

\* C15: isGroupReady is true exactly when every workload of the set has
\* reached the target (active: desired > 0 and ready >= desired; inactive:
\* observed replicas = 0 and ready = 0); one failing workload makes the set not
\* ready, the empty set is ready.
C15_ReadyIffAllReached ==
    last.kind = "isGroupReady" =>
        /\ last.result = (\A i \in SeqToSet(last.objs) :
                             ReachedTarget(workloads[i], last.targetActive))
        /\ last.objs = <<>> => last.result

\* a set of three found not ready for the one workload still at desired count 0
C15_Witness ==
    /\ last.kind = "isGroupReady"
    /\ last.targetActive
    /\ ~last.result
    /\ Len(last.objs) = 3
    /\ \E i \in SeqToSet(last.objs) :
          /\ workloads[i].spec = 0
          /\ \A k \in SeqToSet(last.objs) \ {i} : ReachedTarget(workloads[k], TRUE)

\* the workloads of the namespace of the last ComputePhase call
PhaseItems == {i \in 1..Len(workloads) : workloads[i].ns = last.ns}

\* N, Z, R, K of the phase table
PhaseN == Cardinality(PhaseItems)

PhaseZ == Cardinality({i \in PhaseItems : workloads[i].spec = 0})

PhaseR == Cardinality({i \in PhaseItems : workloads[i].spec >= 1})

PhaseK ==
    Cardinality({i \in PhaseItems :
                    workloads[i].spec >= 1 /\ workloads[i].ready >= workloads[i].spec})

\* the first matching rule of the table
PhaseByTable ==
    CASE PhaseN = 0 -> IF last.targetActive THEN "ScaledUp" ELSE "ScaledDown"
      [] PhaseN # 0 /\ PhaseZ = PhaseN -> "ScaledDown"
      [] PhaseN # 0 /\ PhaseZ # PhaseN /\ PhaseR = PhaseN /\ PhaseK = PhaseN -> "ScaledUp"
      [] OTHER ->
           IF last.targetActive
           THEN (IF PhaseZ > 0 \/ PhaseK < PhaseR THEN "ScalingUp" ELSE "ScaledUp")
           ELSE IF PhaseR > 0 /\ PhaseZ > 0 THEN "ScalingDown"
           ELSE IF PhaseR > 0 /\ PhaseZ = 0 THEN "PartlyScaled"
           ELSE "ScaledDown"

\* C16: ComputePhase equals the first matching rule of the table over N, Z, R,
\* K; it never returns ScalingUp when the target is inactive and never
\* ScalingDown or PartlyScaled when the target is active.
C16_PhaseByTable ==
    last.kind = "ComputePhase" =>
        /\ last.result = PhaseByTable
        /\ ~last.targetActive => last.result # "ScalingUp"
        /\ last.targetActive => last.result \notin {"ScalingDown", "PartlyScaled"}

\* target inactive, every workload still running, one of them short of ready
C16_Witness ==
    /\ last.kind = "ComputePhase"
    /\ ~last.targetActive
    /\ PhaseN = 3
    /\ PhaseR = 3
    /\ PhaseK = 2
    /\ last.result = "PartlyScaled"

-----------------------------------------------------------------------------
(* Claims about the name matchers *)

\* p is a prefix of name
IsPrefixOf(p, name) == Len(p) <= Len(name) /\ \A k \in 1..Len(p) : name[k] = p[k]

\* name occurs in s
OccursIn(name, s) ==
    \E a \in 0..Len(s) :
        /\ a + Len(name) <= Len(s)
        /\ \A k \in 1..Len(name) : s[a + k] = name[k]

\* a sequence element matches a workload name: the catch-all, a prefix glob
\* whose prefix starts the name, or an element the name occurs in
SequenceMatch(s, name) ==
    \/ s = Star
    \/ Len(s) >= 1 /\ s[Len(s)] = "*" /\ IsPrefixOf(SubSeq(s, 1, Len(s) - 1), name)
    \/ OccursIn(name, s)

Trimmed(s) ==
    LET ends == {c \in (1..(Len(s) + 1)) \X (0..Len(s)) :
                    /\ c[1] <= c[2] + 1
                    /\ \A k \in 1..(c[1] - 1) : s[k] \in Space
                    /\ \A k \in (c[2] + 1)..Len(s) : s[k] \in Space
                    /\ c[1] <= c[2] => (s[c[1]] \notin Space /\ s[c[2]] \notin Space)}
        c == CHOOSE x \in ends : TRUE
    IN  SubSeq(s, c[1], c[2])

\* a trimmed exclusion pattern matches a trimmed name: the catch-all, a prefix
\* glob whose prefix starts the name, or the name itself
ExclusionMatch(p, name) ==
    /\ p # <<>>
    /\ \/ p = Star
       \/ p[Len(p)] = "*" /\ IsPrefixOf(SubSeq(p, 1, Len(p) - 1), name)
       \/ p = name

\* C17: isExcluded is true exactly when, after trimming the name and each
\* pattern and ignoring empty patterns, some pattern is "*", or ends in "*"
\* with its prefix a prefix of the name, or equals the name; a pattern without
\* "*" matches neither by substring nor by prefix.
C17_ExcludedIffPatternMatches ==
    last.kind = "isExcluded" =>
        /\ last.result = (\E i \in 1..Len(last.exclusions) :
                             ExclusionMatch(Trimmed(last.exclusions[i]), Trimmed(last.name)))
        /\ (last.result /\ \A i \in 1..Len(last.exclusions) :
                               "*" \notin SeqToSet(last.exclusions[i]))
              => \E i \in 1..Len(last.exclusions) :
                    Trimmed(last.exclusions[i]) = Trimmed(last.name)

\* the pattern db does not exclude db-pg
C17_Witness ==
    /\ last.kind = "isExcluded"
    /\ last.name = <<"d", "b", "-", "p", "g">>
    /\ last.exclusions = <<NameDb>>
    /\ ~last.result

-----------------------------------------------------------------------------
(* Claims about broken time strings *)

\* hh:mm as the scanner takes it in full: digits, a colon, digits
WellFormedTime(x) ==
    \E k \in 2..(Len(x) - 1) :
        /\ x[k] = ":"
        /\ \A j \in (1..Len(x)) \ {k} : x[j] \in SeqToSet(Digits)

\* C19: when the start or the end time of a schedule fails to parse,
\* parseMinutes yields 0 for it and the schedule matches at no current time.
C19_BrokenTimeNeverMatches ==
    isa.pc = "done" =>
        \A i \in 1..Len(isa.schedules) :
            LET s == isa.schedules[i]
            IN  /\ ~WellFormedTime(s.startTime) =>
                      (parseMinutes(s.startTime) = 0 /\ ~IsaMatches(s))
                /\ ~WellFormedTime(s.endTime) =>
                      (parseMinutes(s.endTime) = 0 /\ ~IsaMatches(s))

\* a schedule from "abc" to 17:00 makes IsActive true at 10:00
C19_BrokenStartMatches ==
    /\ isa.pc = "done"
    /\ isa.schedules = <<Schedule(AllDays, TAbc, T1700, "UTC")>>
    /\ isa.t = At(1, 10, 0)
    /\ isa.result = TRUE

\* "9am" is read as 9 hours
C19_PartialParseKeepsHour ==
    /\ isa.pc = "done"
    /\ isa.schedules[1].startTime = T9am
    /\ parseMinutes(T9am) = 540

-----------------------------------------------------------------------------
(* Claims about the order of the priority groups *)

\* the workloads the last ScaleTarget call had to scale: those of the
\* namespace that no exclusion matches
CallScalable ==
    {i \in 1..Len(last.before) :
        /\ last.before[i].ns = last.ns
        /\ ~\E k \in 1..Len(last.exclusions) :
               ExclusionMatch(Trimmed(last.exclusions[k]), Trimmed(last.before[i].name))}

\* the priority of workload i in the call: the index of the first sequence
\* element that matches its name, 999 without one
CallPriority(i) ==
    LET hits == {k \in 1..Len(last.sequence) :
                    SequenceMatch(last.sequence[k], last.before[i].name)}
    IN  IF hits = {} THEN 999 ELSE (CHOOSE k \in hits : \A h \in hits : k <= h) - 1

\* priority p comes before priority q in the direction of the call
ComesBefore(p, q) == IF last.active THEN p > q ELSE p < q

\* the call went through the priority groups in the order of the direction,
\* leaving none out, up to the first group not ready after being acted on
VisitedInOrder ==
    /\ \A v \in 1..Len(last.visits) :
          /\ SeqToSet(last.visits[v].objs)
                = {i \in CallScalable : CallPriority(i) = last.visits[v].p}
          /\ last.visits[v].objs # <<>>
          /\ \A u \in 1..(v - 1) : ComesBefore(last.visits[u].p, last.visits[v].p)
          /\ \A i \in CallScalable :
                ComesBefore(CallPriority(i), last.visits[v].p)
                => \E u \in 1..(v - 1) : last.visits[u].p = CallPriority(i)

\* the call stopped at the first group not ready after being acted on
StoppedAtUnready ==
    /\ \A v \in 1..Len(last.visits) :
          ~last.visits[v].readyAfter => (v = Len(last.visits) /\ ~last.ready)
    /\ (\A v \in 1..Len(last.visits) : last.visits[v].readyAfter) =>
          /\ last.ready
          /\ \A i \in CallScalable :
                \E v \in 1..Len(last.visits) : last.visits[v].p = CallPriority(i)

\* every write went to a workload of a visited group, and the workloads of
\* the groups not visited are as they were
WritesWithinVisited ==
    /\ \A j \in 1..Len(last.writes) :
          \E v \in 1..Len(last.visits) : last.writes[j].obj \in SeqToSet(last.visits[v].objs)
    /\ \A i \in 1..Len(workloads) :
          (\A v \in 1..Len(last.visits) : i \notin SeqToSet(last.visits[v].objs))
          => workloads[i] = last.before[i]

-----------------------------------------------------------------------------
(* Claims about the timeout inside the engine *)

\* the key the call holds workload i under
CallKey(i) == <<last.before[i].kind, "/">> \o last.before[i].name

\* the replica count the call aims for at workload i: 0 with the target
\* inactive; else the count recorded for it, else its desired count when
\* positive, else 1
CallTarget(i) ==
    IF ~last.active THEN 0
    ELSE IF CallKey(i) \in DOMAIN last.originalReplicas
         THEN last.originalReplicas[CallKey(i)]
    ELSE IF last.before[i].spec > 0 THEN last.before[i].spec
    ELSE 1

\* the workloads of the priority group of workload i
CallGroup(i) == {k \in CallScalable : CallPriority(k) = CallPriority(i)}

\* the priority group of workload i had reached the target before the call
GroupReadyBefore(i) ==
    \A k \in CallGroup(i) : ReachedTarget(last.before[k], last.active)

\* the priority group of workload i has reached the target after the call
GroupReadyAfter(i) ==
    \A k \in CallGroup(i) : ReachedTarget(workloads[k], last.active)

\* C21: ScaleTarget with timeoutPassed true acts on every priority group that
\* is not ready, whatever the readiness of the groups before it (each of its
\* workloads is left at the replica count aimed for), and returns
\* allReady = true even when a priority group is still not ready.
C21_TimeoutActsOnEveryGroup ==
    (ScaleTargetCalled /\ last.timeoutPassed) =>
        /\ last.ready
        /\ \A i \in CallScalable :
              ~GroupReadyBefore(i) => workloads[i].spec = CallTarget(i)

\* a scale-down past the timeout: the first group written and still running,
\* the group after it written all the same, and the call returning ready
C21_Witness ==
    /\ ScaleTargetCalled
    /\ last.timeoutPassed
    /\ ~last.active
    /\ last.ready
    /\ \E i, k \in CallScalable :
          /\ CallPriority(i) < CallPriority(k)
          /\ ~GroupReadyAfter(i)
          /\ \E a, b \in 1..Len(last.writes) :
                a < b /\ last.writes[a].obj = i /\ last.writes[b].obj = k

-----------------------------------------------------------------------------
(* Claims about the replica count aimed for *)

\* the priority group of workload i was visited and found not ready
ActedOn(i) ==
    /\ ~GroupReadyBefore(i)
    /\ \E v \in 1..Len(last.visits) : last.visits[v].p = CallPriority(i)

\* C22: a workload ScaleTarget acts on is aimed at the recorded
\* originalReplicas entry when the target is active and one exists, else at
\* its current desired count when that is > 0, else at 1; at 0 when the target
\* is inactive.  Every write carries that count and the workload is left at it.
C22_AimsAtRecordedCurrentOrOne ==
    ScaleTargetCalled =>
        /\ \A i \in CallScalable : ActedOn(i) => workloads[i].spec = CallTarget(i)
        /\ \A j \in 1..Len(last.writes) :
              /\ last.writes[j].to = CallTarget(last.writes[j].obj)
              /\ last.writes[j].from = last.before[last.writes[j].obj].spec
              /\ ~last.active => last.writes[j].to = 0

\* one scale-up showing the three cases: db at 1 with MaxReplicas on record is
\* written to MaxReplicas, web at 0 without a record is written to 1, sys-1
\* at 1 without a record stays at 1
C22_Witness ==
    /\ ScaleTargetCalled
    /\ last.active
    /\ \A i \in 1..3 : i \in CallScalable /\ ActedOn(i)
    /\ last.before[1].spec = 1 /\ CallKey(1) \in DOMAIN last.originalReplicas
    /\ workloads[1].spec = MaxReplicas
    /\ last.before[2].spec = 0 /\ CallKey(2) \notin DOMAIN last.originalReplicas
    /\ workloads[2].spec = 1
    /\ last.before[3].spec = 1 /\ workloads[3].spec = 1
    /\ Len(last.writes) = 2

-----------------------------------------------------------------------------
(* Claims about calls that find nothing to do *)

\* every priority group of the call had reached the target before it
ConvergedBefore == \A i \in CallScalable : GroupReadyBefore(i)

\* C23: when every priority group is already ready for the target, ScaleTarget
\* issues no write, leaves the workloads as they are, returns originalReplicas
\* unchanged and allReady = true; and no call writes to a workload whose
\* desired count already equals the count aimed for.
C23_NoWriteWhereNothingToDo ==
    ScaleTargetCalled =>
        /\ ConvergedBefore =>
              /\ last.writes = <<>>
              /\ workloads = last.before
              /\ last.orig = last.originalReplicas
              /\ last.ready
        /\ \A j \in 1..Len(last.writes) :
              /\ last.writes[j].from # last.writes[j].to
              /\ last.before[last.writes[j].obj].spec # CallTarget(last.writes[j].obj)

\* a scale-up call on a namespace that is up and ready, under a sequence, with
\* a count on record that differs from the desired count: nothing is written
\* and the record comes back as it went in
C23_Witness ==
    /\ ScaleTargetCalled
    /\ last.active
    /\ ~last.timeoutPassed
    /\ CallScalable = 1..3
    /\ ConvergedBefore
    /\ last.sequence # <<>>
    /\ CallKey(1) \in DOMAIN last.originalReplicas
    /\ last.before[1].spec # last.originalReplicas[CallKey(1)]
    /\ last.orig = last.originalReplicas

-----------------------------------------------------------------------------
(* Claims about the timeout window of a config *)

\* a step that reconciles a config whose namespace no group lists
ScalingStep(c) ==
    /\ last'.kind = "config"
    /\ last'.found
    /\ last'.name = c
    /\ ~ListedByGroup(configs[c].spec.targetNamespace)

\* the step set lastAction to now exactly on a change of phase or a zero
\* lastAction, and took the timeout as passed exactly when the phase it left
\* is ScalingUp or ScalingDown and lastAction is more than a minute back
TimedStep(c) ==
    LET old == configs[c].status
        new == configs'[c].status
        changed == old.phase # new.phase
    IN  /\ new.phase = ComputePhase(workloads, configs[c].spec.targetNamespace,
                                    last'.targetActive)
        /\ new.lastAction = IF changed \/ old.lastAction = ZeroTime THEN now
                            ELSE old.lastAction
        /\ last'.timeoutPassed = (/\ new.phase \in {"ScalingUp", "ScalingDown"}
                                  /\ now - new.lastAction > Minute)
        /\ changed => ~last'.timeoutPassed

\* C24: a config reconcile not overridden by a group sets status.lastAction
\* to now exactly when the freshly computed phase differs from the stored one
\* or lastAction is still zero; timeoutPassed is true exactly when the phase
\* after that is ScalingUp or ScalingDown and lastAction is more than one
\* minute back; so timeoutPassed is never true in the reconcile in which the
\* phase changed.
C24_TimeoutWindowOfConfig ==
    [][\A c \in DOMAIN configs : ScalingStep(c) => TimedStep(c)]_vars

\* a config reconcile that found the phase ScalingDown unchanged for two
\* minutes and took the timeout as passed
C24_Witness ==
    /\ ConfigReconciled
    /\ last.scaleCalled
    /\ last.timeoutPassed
    /\ configs[last.name].status.phase = "ScalingDown"
    /\ now - configs[last.name].status.lastAction > Minute
    /\ configs[last.name].status.lastAction # ZeroTime

-----------------------------------------------------------------------------
(* Claims about what a reconcile returns *)

\* a step that reconciles an object that is not there
NotFoundStep == last'.kind \in {"config", "group"} /\ ~last'.found

\* the step wrote nothing and returned no error and no requeue
NoOpStep ==
    /\ UNCHANGED <<workloads, configs, groups>>
    /\ last'.writes = <<>>
    /\ ~last'.err
    /\ last'.requeueAfter = 0

\* a step that reconciles an object that is there, without error
FoundStep == last'.kind \in {"config", "group"} /\ last'.found /\ ~last'.err

\* the step requeues after 5 s when it did not find everything ready, after
\* 60 s when it did
RequeueByReadiness == last'.requeueAfter = IF last'.ready THEN 60 ELSE 5

\* the step reconciles a config whose namespace a group lists
OverriddenConfigStep ==
    /\ last'.kind = "config"
    /\ ListedByGroup(configs[last'.name].spec.targetNamespace)

\* C25 as stated: a reconcile whose ScalingConfig or ScalingGroup is not
\* found returns without error, requeue or write; every other successful
\* config or group reconcile requeues after 5 s if and only if it did not find
\* everything ready, and after 60 s when it did.
C25_RequeueByReadiness ==
    [][/\ NotFoundStep => NoOpStep
       /\ FoundStep => RequeueByReadiness]_vars

\* C25 amended: as above, but a config overridden by a group, which does
\* not look at readiness at all, requeues after 5 minutes.
C25_RequeueByReadinessUnlessOverridden ==
    [][/\ NotFoundStep => NoOpStep
       /\ FoundStep => IF OverriddenConfigStep THEN last'.requeueAfter = 300
                       ELSE RequeueByReadiness]_vars

\* the reconcile of the config that is gone, while the group is scaling its
\* target namespace down: nothing moved
C25_Witness ==
    /\ last.kind = "config"
    /\ ~last.found
    /\ last.requeueAfter = 0
    /\ ~configs[last.name].exists
    /\ "grp" \in ExistingGroups
    /\ groups["grp"].status.phase = "ScalingDown"
    /\ \E i \in 1..Len(workloads) :
          /\ workloads[i].ns = configs[last.name].spec.targetNamespace
          /\ workloads[i].spec = 0 /\ workloads[i].replicas > 0

-----------------------------------------------------------------------------
(* Claims about a namespace that fails or is not ready *)

\* entry j of the log of the last group reconcile: ScaleTarget returned an
\* error for the namespace
FailedAt(j) == last.nsLog[j].failed

\* ScaleTarget returned not ready for the namespace
NotReadyAt(j) == ~last.nsLog[j].failed /\ ~last.nsLog[j].nsReady

\* every namespace of the stage of entry j went through the loop, and each
\* one for which ScaleTarget did not fail was left as ScaleTarget leaves it
StageCompleted(j) ==
    \A ns \in SeqToSet(last.stages[last.nsLog[j].stage]) :
        \E k \in 1..Len(last.nsLog) :
            /\ last.nsLog[k].ns = ns
            /\ last.nsLog[k].stage = last.nsLog[j].stage

\* no stage after the stage of entry j was entered
StoppedAfterStage(j) ==
    \A k \in 1..Len(last.nsLog) : last.nsLog[k].stage <= last.nsLog[j].stage

\* the reconcile returned no error and its status is the persisted one
StatusPersisted ==
    /\ ~last.err
    /\ last.requeueAfter = 5
    /\ groups[last.name].status.phase
          = (IF last.targetActive THEN "ScalingUp" ELSE "ScalingDown")
    /\ groups[last.name].status.managedCount = Len(last.nsLog)

ReportedAt(j) ==
    /\ StageCompleted(j)
    /\ last.nsLog[j].ns \in SeqToSet(last.blocking)
    /\ StoppedAfterStage(j)
    /\ StatusPersisted

\* C26: in a group reconcile, a namespace for which ScaleTarget fails or
\* returns not ready does not keep the other namespaces of its stage from
\* being scaled; the namespace is recorded as blocking, no later stage is
\* processed, and the reconcile persists its status and returns no error.
C26_FailedOrUnreadyIsReported ==
    GroupReconciled =>
        \A j \in 1..Len(last.nsLog) : (FailedAt(j) \/ NotReadyAt(j)) => ReportedAt(j)

\* the same for the namespaces for which ScaleTarget fails
C26_FailureIsReported ==
    GroupReconciled => \A j \in 1..Len(last.nsLog) : FailedAt(j) => ReportedAt(j)

\* ScaleTarget failed for b, and c of the same stage was written all the same
C26_FailureBesideWrite ==
    /\ GroupReconciled
    /\ \E j \in 1..Len(last.nsLog) : FailedAt(j) /\ last.nsLog[j].ns = NsB
    /\ \E k \in 1..Len(last.writes) : last.writes[k].ns = NsC

\* a namespace not ready, at the target phase, and on no blocking list
C26_UnreadyNotBlocking ==
    /\ GroupReconciled
    /\ \E j \in 1..Len(last.nsLog) :
          /\ NotReadyAt(j)
          /\ last.nsLog[j].phase = "ScaledDown"
          /\ last.blocking = <<>>
          /\ last.events = {}

-----------------------------------------------------------------------------
(* Claims about the phase of a group *)

\* the last group reconcile found every namespace of every stage ready
EveryNamespaceFoundReady ==
    \A k \in 1..Len(last.stages) :
        \A ns \in SeqToSet(last.stages[k]) : FoundReady(ns, k)

\* the phase the group's status holds after the last reconcile says whether
\* everything was found ready, in the direction of the target
PhaseTellsReadiness ==
    groups[last.name].status.phase =
        (IF EveryNamespaceFoundReady
         THEN (IF last.targetActive THEN "ScaledUp" ELSE "ScaledDown")
         ELSE (IF last.targetActive THEN "ScalingUp" ELSE "ScalingDown"))

\* a step that reconciles the existing group g
GroupStep(g) == last'.kind = "group" /\ last'.found /\ last'.name = g

\* the step stamped lastAction and recorded PhaseTransition exactly on a
\* change of phase, and stamped a zero lastAction in any case
TransitionStep(g) ==
    LET old == groups[g].status
        new == groups'[g].status
        changed == old.phase # new.phase
    IN  /\ changed <=> (\E e \in last'.events : e.reason = "PhaseTransition")
        /\ new.lastAction = IF changed \/ old.lastAction = ZeroTime THEN now
                            ELSE old.lastAction

\* C27: after every group reconcile status.phase is ScaledUp or ScaledDown if
\* and only if every namespace of every stage was found ready in that
\* reconcile, ScalingUp or ScalingDown otherwise, the direction being that of
\* the target; lastAction is set to now and PhaseTransition is recorded
\* exactly when the phase changed (a zero lastAction is set to now as well).
C27_GroupPhaseAndTransition ==
    /\ [](GroupReconciled => PhaseTellsReadiness)
    /\ [][\A g \in DOMAIN groups : GroupStep(g) => TransitionStep(g)]_vars

\* a reconcile that found the three namespaces down and moved the group
\* from ScalingDown to ScaledDown, some time after the scale-down began
C27_Witness ==
    /\ GroupReconciled
    /\ ~last.targetActive
    /\ EveryNamespaceFoundReady
    /\ Len(last.nsLog) = 3
    /\ groups[last.name].status.phase = "ScaledDown"
    /\ groups[last.name].status.lastAction = now
    /\ now > 0
    /\ \E e \in last.events : e.reason = "PhaseTransition"

-----------------------------------------------------------------------------
(* Claims about literal sequence elements *)

\* a sequence element that is no glob
Literal(s) == s # <<>> /\ s[Len(s)] # "*"

C28_ShortNameInLongElement ==
    /\ last.kind = "getSequenceIndex"
    /\ last.name = NameDb
    /\ last.sequence = <<NameRedis>>
    /\ last.result = 0

-----------------------------------------------------------------------------
(* Claims about the group's map of recorded counts *)

\* key k of the group's map belongs to namespace ns
Under(ns, k) == IsPrefixOf(ns \o <<"/">>, k)

\* the entries of map m that belong to ns, under the keys ScaleTarget uses
EntriesOf(m, ns) ==
    LET mine == {k \in DOMAIN m : Under(ns, k)}
    IN  [k2 \in {SubSeq(k, Len(ns) + 2, Len(k)) : k \in mine} |->
            m[CHOOSE k \in mine : SubSeq(k, Len(ns) + 2, Len(k)) = k2]]

\* the step left alone every entry of a namespace it did not process, gave
\* ScaleTarget the entries of the namespace processed and no other, and
\* stored what ScaleTarget returned under the namespace
FrameStep(g) ==
    LET old == groups[g].status.originalReplicas
        new == groups'[g].status.originalReplicas
        log == last'.nsLog
    IN  /\ \A k \in DOMAIN old \cup DOMAIN new :
              (~\E j \in 1..Len(log) : Under(log[j].ns, k))
              => (k \in DOMAIN old /\ k \in DOMAIN new /\ new[k] = old[k])
        /\ \A j \in 1..Len(log) :
              ~log[j].failed =>
                  /\ log[j].given = EntriesOf(old, log[j].ns)
                  /\ EntriesOf(new, log[j].ns) = log[j].returned

\* C29: in a group reconcile, processing namespace ns reads and rewrites only
\* the status.originalReplicas entries whose key starts with "ns/": the
\* entries of every other namespace, those of stages not reached included,
\* stay as they are, and the entries ScaleTarget returns for ns are stored
\* under the "ns/" prefix.
C29_OnlyOwnPrefixTouched ==
    [][\A g \in DOMAIN groups : GroupStep(g) => FrameStep(g)]_vars

\* a scale-up that got as far as a, its first stage, and wrote to it, while
\* the map holds the counts of b and c, not reached
C29_Witness ==
    /\ GroupReconciled
    /\ last.targetActive
    /\ Len(last.nsLog) = 1
    /\ last.nsLog[1].ns = NsA
    /\ last.writes # <<>>
    /\ DOMAIN last.nsLog[1].returned # {}
    /\ \A ns \in {NsA, NsB, NsC} :
          \E k \in DOMAIN groups[last.name].status.originalReplicas : Under(ns, k)

-----------------------------------------------------------------------------
(* Claims about status updates that fail *)

\* the persisted map of recorded counts of the object reconciled last
PersistedOriginals ==
    IF last.kind = "config" THEN configs[last.name].status.originalReplicas
    ELSE groups[last.name].status.originalReplicas

\* the key that map holds workload w under
PersistedKey(w) == IF last.kind = "config" THEN ConfigKey(w) ELSE GroupKey(w)

\* C30: after any reconcile, one whose final status update failed included,
\* every workload the reconcile scaled from r >= 1 to 0 has r recorded in the
\* persisted status.originalReplicas.
C30_RecordSurvivesFailedUpdate ==
    (Reconciled /\ last.found) =>
        \A j \in 1..Len(last.writes) :
            (last.writes[j].from >= 1 /\ last.writes[j].to = 0) =>
                /\ PersistedKey(workloads[last.writes[j].obj]) \in DOMAIN PersistedOriginals
                /\ PersistedOriginals[PersistedKey(workloads[last.writes[j].obj])]
                      = last.writes[j].from

\* the same without the failures
C30_RecordKeptWhenUpdateSucceeds ==
    (Reconciled /\ last.found /\ ~last.err) =>
        \A j \in 1..Len(last.writes) :
            (last.writes[j].from >= 1 /\ last.writes[j].to = 0) =>
                /\ PersistedKey(workloads[last.writes[j].obj]) \in DOMAIN PersistedOriginals
                /\ PersistedOriginals[PersistedKey(workloads[last.writes[j].obj])]
                      = last.writes[j].from

\* what the lost record leads to: a config scaled up again, reporting
\* ScaledUp with everything ready, and its workload at 1 instead of the
\* count it had
C30_RestoredToDefault ==
    /\ ConfigReconciled
    /\ ~last.err
    /\ last.targetActive
    /\ last.ready
    /\ configs[last.name].status.phase = "ScaledUp"
    /\ \E i \in 1..Len(workloads) :
          /\ workloads[i].ns = configs[last.name].spec.targetNamespace
          /\ workloads[i].initial = MaxReplicas
          /\ workloads[i].spec = 1
          /\ workloads[i].ready = 1

-----------------------------------------------------------------------------
(* Claims about the recorded counts of a namespace that fails *)

\* the step kept every entry of every namespace for which ScaleTarget
\* returned an error
FailedEntriesKept(g) ==
    LET old == groups[g].status.originalReplicas
        new == groups'[g].status.originalReplicas
        log == last'.nsLog
    IN  \A j \in 1..Len(log) :
            log[j].failed =>
                \A k \in DOMAIN old :
                    Under(log[j].ns, k) => (k \in DOMAIN new /\ new[k] = old[k])

\* C31: when ScaleTarget returns an error for a namespace during a group
\* reconcile, the status.originalReplicas entries of that namespace that
\* existed before the call are still in the status the reconcile persists.
C31_EntriesOfFailedNamespaceKept ==
    [][\A g \in DOMAIN groups : GroupStep(g) => FailedEntriesKept(g)]_vars

\* a reconcile in which ScaleTarget failed for a namespace that had a count
\* on record, and whose persisted status holds no entry of that namespace
C31_EntriesDropped ==
    /\ GroupReconciled
    /\ ~last.err
    /\ \E j \in 1..Len(last.nsLog) :
          /\ last.nsLog[j].failed
          /\ DOMAIN last.nsLog[j].given # {}
          /\ ~\E k \in DOMAIN groups[last.name].status.originalReplicas :
                 Under(last.nsLog[j].ns, k)
          /\ \E i \in 1..Len(workloads) :
                workloads[i].ns = last.nsLog[j].ns /\ workloads[i].spec = 0

-----------------------------------------------------------------------------
(* Claims about the timeout window of a group *)

\* the phase of a group that is on its way to the target
ScalingPhase(targetActive) == IF targetActive THEN "ScalingUp" ELSE "ScalingDown"

\* the step took the timeout as passed only for a group that was scaling
\* towards the step's target for more than a minute
TimeoutInDirection(g) ==
    last'.timeoutPassed =>
        /\ groups[g].status.phase = ScalingPhase(last'.targetActive)
        /\ Since(groups[g].status.lastAction) > Minute

\* C32: in a group reconcile timeoutPassed is true only if the group has been
\* scaling in the current target direction for more than one minute; in the
\* first reconcile after the desired activity flips, the bypass does not fire.
C32_TimeoutOnlyInTargetDirection ==
    [][\A g \in DOMAIN groups : GroupStep(g) => TimeoutInDirection(g)]_vars

\* a reconcile that took the timeout as passed and, in the same pass, left
\* the scaling phase of the other direction
C32_BypassOnFlip ==
    /\ GroupReconciled
    /\ last.timeoutPassed
    /\ groups[last.name].status.phase = ScalingPhase(last.targetActive)
    /\ groups[last.name].status.lastAction = now
    /\ \E e \in last.events : e.reason = "PhaseTransition"

-----------------------------------------------------------------------------
(* Claims about the namespaces a group writes to *)

\* C33: a ScalingGroup reconcile writes only to workloads in namespaces that
\* are members of the group's spec.namespaces; a namespace named in
\* spec.sequence but absent from spec.namespaces is never scaled by the group.
C33_WritesOnlyToMemberNamespaces ==
    GroupReconciled =>
        \A j \in 1..Len(last.writes) :
            last.writes[j].ns \in SeqToSet(groups[last.name].spec.namespaces)

\* a group reconcile that scaled to 0 a workload of a namespace its
\* spec.namespaces does not hold
C33_SequenceOnlyNamespaceScaled ==
    /\ GroupReconciled
    /\ \E j \in 1..Len(last.writes) :
          /\ last.writes[j].ns \notin SeqToSet(groups[last.name].spec.namespaces)
          /\ last.writes[j].from >= 1
          /\ last.writes[j].to = 0
          /\ workloads[last.writes[j].obj].spec = 0

-----------------------------------------------------------------------------
(* Claims about the counters of a group *)

\* the number of namespaces over all stages, a namespace counted as often as
\* the stages name it
NamespacesOverStages(stages) ==
    Cardinality(UNION {{<<i, j>> : j \in 1..Len(stages[i])} : i \in 1..Len(stages)})

-----------------------------------------------------------------------------
(* Claims about what a namespace reported scaled down holds *)

\* one call of ScaleTarget with the target inactive and the timeout not
\* passed that returned allReady = true
ReportedDown ==
    /\ ScaleTargetCalled
    /\ ~last.active
    /\ ~last.timeoutPassed
    /\ last.ready

\* C35: with target inactive and timeoutPassed false, ScaleTarget returns
\* allReady = true only if every non-excluded workload of the namespace has
\* desired replica count 0; a workload whose desired count is still >= 1 is
\* never skipped as already scaled down.
C35_ReportedDownMeansDesiredZero ==
    ReportedDown => \A i \in CallScalable : workloads[i].spec = 0

\* C35, as the code has it: with target inactive and timeoutPassed false,
\* ScaleTarget returns allReady = true only if every non-excluded workload of
\* the namespace has observed replicas 0 and ready replicas 0, and then it has
\* written nothing; the desired count is not consulted.
C35_ReportedDownMeansNoPods ==
    ReportedDown =>
        /\ \A i \in CallScalable : workloads[i].replicas = 0 /\ workloads[i].ready = 0
        /\ last.writes = <<>>
        /\ workloads = last.before

\* a namespace reported down while a workload of it that is not excluded has
\* a desired count of MaxReplicas and no pod yet
C35_Witness ==
    /\ ReportedDown
    /\ last.exclusions = <<>>
    /\ \E i \in CallScalable :
          /\ workloads[i].spec = MaxReplicas
          /\ workloads[i].replicas = 0
    /\ \E i \in CallScalable : workloads[i].spec = 0

-----------------------------------------------------------------------------
(* Claims about excluded workloads and convergence *)

\* workload w is excluded by the exclusions namespace ns inherits
ExcludedIn(ns, w) ==
    \E k \in 1..Len(InheritedConfig(ns).exclusions) :
        ExclusionMatch(Trimmed(InheritedConfig(ns).exclusions[k]), Trimmed(w.name))

\* workload w is where the target wants it, in desired and in observed counts
AtTarget(w, targetActive) ==
    IF targetActive THEN w.spec > 0 /\ w.ready >= w.spec
    ELSE w.spec = 0 /\ w.replicas = 0 /\ w.ready = 0

\* every workload of ns that is not excluded has converged to the target
NonExcludedConverged(ns, targetActive) ==
    \A i \in 1..Len(workloads) :
        (workloads[i].ns = ns /\ ~ExcludedIn(ns, workloads[i]))
        => AtTarget(workloads[i], targetActive)

\* the entries of the last group reconcile's log whose namespace has converged
\* but for its excluded workloads
ConvergedEntries ==
    {j \in 1..Len(last.nsLog) :
        ~last.nsLog[j].failed /\ NonExcludedConverged(last.nsLog[j].ns, last.targetActive)}

\* C36: excluded workloads do not block convergence: once every non-excluded
\* workload of a namespace has converged to the target, the namespace is
\* reported at the target phase, is counted in namespacesReady, and the group
\* advances past its stage, even if an excluded workload is still running
\* (inactive target) or still at zero replicas (active target).
C36_ExcludedDoNotBlock ==
    GroupReconciled =>
        /\ \A j \in ConvergedEntries :
              /\ last.nsLog[j].nsReady
              /\ last.nsLog[j].phase = TargetPhase(last.targetActive)
        /\ groups[last.name].status.namespacesReady >= Cardinality(ConvergedEntries)
        /\ \A k \in 1..(Len(last.stages) - 1) :
              (\A j \in 1..Len(last.nsLog) :
                  last.nsLog[j].stage = k => j \in ConvergedEntries)
              => \E j \in 1..Len(last.nsLog) : last.nsLog[j].stage = k + 1

\* a group two minutes into a scale-down whose only namespace has every
\* non-excluded workload at 0 and an excluded one running: ScaleTarget reports
\* the namespace ready, the namespace is not counted, the group is ScalingDown
C36_ExcludedWorkloadBlocks ==
    /\ GroupReconciled
    /\ ~last.targetActive
    /\ now >= 2 * Minute
    /\ groups[last.name].status.phase = "ScalingDown"
    /\ groups[last.name].status.namespacesReady = 0
    /\ \E j \in ConvergedEntries :
          /\ last.nsLog[j].nsReady
          /\ last.nsLog[j].phase # "ScaledDown"
          /\ \E i \in 1..Len(workloads) :
                /\ workloads[i].ns = last.nsLog[j].ns
                /\ ExcludedIn(workloads[i].ns, workloads[i])
                /\ workloads[i].spec >= 1

-----------------------------------------------------------------------------
(* Claims about convergence *)

\* config c is at rest: its phase is that of its target, and the reconcile,
\* where it is the last thing that happened, found every priority group ready
\* and wrote nothing
AtRest(c) ==
    /\ configs[c].status.phase =
          TargetPhase(IsActive(configs[c].spec.schedules, configs[c].spec.active, now, 0))
    /\ (ConfigReconciled /\ last.name = c) => (last.ready /\ last.writes = <<>>)

\* C37: if a ScalingConfig's spec and desired activity stay fixed, no group
\* lists its namespace, no workload is excluded, all writes succeed, reconciles
\* keep being requeued, and every workload's observed and ready replicas
\* eventually match its desired count, then eventually status.phase is
\* ScaledDown (target inactive) or ScaledUp (target active), ScaleTarget
\* reports allReady, and no further workload write is issued.
C37_ConvergesUnderFairness ==
    <>[](\A c \in ExistingConfigs : AtRest(c))

\* a config that came to rest scaled up after the user had switched it off
\* and on again: the reconcile finds all ready and writes nothing
C37_Witness ==
    /\ ConfigReconciled
    /\ AtRest(last.name)
    /\ last.targetActive
    /\ last.ready
    /\ userActions = MaxUserActions
    /\ \A i \in 1..Len(workloads) : workloads[i].spec >= 1 /\ workloads[i].ready = workloads[i].spec

-----------------------------------------------------------------------------
(* Claims about controller objects that overlap *)

\* the step leaves the desired replica count of every workload as it is
DesiredCountsKept ==
    \A i \in 1..Len(workloads) : workloads'[i].spec = workloads[i].spec

\* C38: with all specs fixed, the desired replica count of every workload
\* eventually stops changing: no two controller objects (two groups listing the
\* same namespace, or two configs with the same targetNamespace, with opposite
\* desired activity) keep overwriting each other's replica writes forever.
C38_DesiredCountsSettle == <>[][DesiredCountsKept]_vars

\* the config that holds the namespace down scales a workload to 0 of which it
\* already holds a count on record and which the other config had brought back
C38_OverwrittenAgain ==
    /\ ConfigReconciled
    /\ last.name = "cfg-down"
    /\ DOMAIN configs["cfg-down"].status.originalReplicas # {}
    /\ DOMAIN configs["cfg-up"].status.originalReplicas = {}
    /\ configs["cfg-up"].status.phase \in {"ScalingUp", "ScaledUp"}
    /\ configs["cfg-down"].status.phase \in {"ScalingDown", "ScaledDown", "PartlyScaled"}
    /\ \E j \in 1..Len(last.writes) : last.writes[j].from >= 1 /\ last.writes[j].to = 0

-----------------------------------------------------------------------------
(* Claims about a config reconcile beside the creation of a group *)

\* C39: in every interleaving of a ScalingConfig reconcile with the creation
\* of a ScalingGroup that lists the config's targetNamespace and with that
\* group's reconcile, no workload write by the config reconcile takes place at
\* a moment when such a group already exists.
C39_NoConfigWriteBesideGroup ==
    (ConfigReconciled /\ last.writes # <<>>)
        => ~ListedByGroup(configs[last.name].spec.targetNamespace)

\* a config reconcile that scaled the workload to 0 after a group listing the
\* namespace had been created and had found the namespace up
C39_WriteAfterGroupReconciled ==
    /\ ConfigReconciled
    /\ \E j \in 1..Len(last.writes) : last.writes[j].from >= 1 /\ last.writes[j].to = 0
    /\ ListedByGroup(configs[last.name].spec.targetNamespace)
    /\ groups["grp"].exists
    /\ groups["grp"].status.phase = "ScaledUp"
    /\ configs[last.name].status.phase # "OverriddenByGroup"

=============================================================================
